---- MODULE Spec2Model ----
(***************************************************************************)
(* A model of navajo's HTTP/1.1 connection engine:                         *)
(*   navajo/protocols/http/parser.py    RequestBuffer (incremental parser) *)
(*   navajo/protocols/http/handlers.py  TimeoutHandler, ErrorResponse-     *)
(*                                      Handler, ASGIResponseHandler       *)
(*   navajo/protocols/http/protocol.py  HttpServerProtocol                 *)
(*                                                                         *)
(* Bytes and str values are sequences of one-character strings.  Offsets   *)
(* are 0-based as in Python; PySlice is Python's s[a:b].  An optional      *)
(* integer (None or an int) is <<>> or <<n>>.                              *)
(***************************************************************************)
EXTENDS Integers, Sequences, FiniteSets, TLC

VARIABLES
  mode,        \* which harness drives the code: "parser", "keepalive", "conn",
               \* "seq", "body", "server", "line", "timer" or "loop"
  server,      \* the Server: lifespan state, shutdown event, listeners, tasks
  wire,        \* the bytes of the request the peer is sending
  fed,         \* how many bytes of wire have been handed to the code
  buffer,      \* the RequestBuffer (HttpServerProtocol.buffer)
  raised,      \* exception that escaped the last feed_data / data_received call
  ret,         \* value returned by the last feed_data / should_keep_alive call,
               \* or by is_closing() in connection_lost
  reqno,       \* how many requests the peer has started to send
  transport,   \* the asyncio transport: is_closing(), close() calls, write() calls
  timeout_handler,  \* TimeoutHandler: the two timer handles
  asgi,        \* ASGIResponseHandler: _started, _status, _headers, _scope
  request_count,    \* HttpServerProtocol.request_count
  tasks,       \* the application tasks created by data_received, in order
  lost         \* connection_lost has run

vars == <<mode, server, wire, fed, buffer, raised, ret, reqno, transport,
          timeout_handler, asgi, request_count, tasks, lost>>

----------------------------------------------------------------------------
(* Python's bytes / str primitives *)

Max2(a, b) == IF a >= b THEN a ELSE b

Min2(a, b) == IF a <= b THEN a ELSE b

PyIndex(n, len) == IF n < 0 THEN Max2(n + len, 0) ELSE Min2(n, len)

PySlice(s, a, b) ==
  LET lo == PyIndex(a, Len(s))
      hi == PyIndex(b, Len(s))
  IN  IF lo >= hi THEN <<>> ELSE SubSeq(s, lo + 1, hi)

PyFrom(s, a) == PySlice(s, a, Len(s))

StartsWithAt(s, pat, i) ==
  i + Len(pat) <= Len(s) /\ \A j \in 1..Len(pat) : s[i + j] = pat[j]

StartsWith(s, pat) == StartsWithAt(s, pat, 0)

\* Python's s.find(pat, i): the first offset >= i where pat occurs, or -1
FindFrom(s, pat, i) ==
  LET hits == {k \in i..(Len(s) - Len(pat)) : StartsWithAt(s, pat, k)}
  IN  IF hits = {} THEN -1 ELSE CHOOSE k \in hits : \A m \in hits : k <= m

Find(s, pat) == FindFrom(s, pat, 0)

RECURSIVE Split(_, _)
Split(s, sep) ==
  LET i == Find(s, sep)
  IN  IF i = -1 THEN <<s>>
      ELSE <<PySlice(s, 0, i)>> \o Split(PyFrom(s, i + Len(sep)), sep)

Split1(s, sep) ==
  LET i == Find(s, sep)
  IN  IF i = -1 THEN <<s>>
      ELSE <<PySlice(s, 0, i), PyFrom(s, i + Len(sep))>>

Whitespace == {" ", "\t", "\n", "\r", "\f"}

RECURSIVE LStrip(_)
LStrip(s) ==
  IF s # <<>> /\ Head(s) \in Whitespace THEN LStrip(Tail(s)) ELSE s

RECURSIVE RStrip(_)
RStrip(s) ==
  IF s # <<>> /\ s[Len(s)] \in Whitespace
  THEN RStrip(SubSeq(s, 1, Len(s) - 1)) ELSE s

Strip(s) == RStrip(LStrip(s))

UpperChars ==
  <<"A","B","C","D","E","F","G","H","I","J","K","L","M",
    "N","O","P","Q","R","S","T","U","V","W","X","Y","Z">>

LowerChars ==
  <<"a","b","c","d","e","f","g","h","i","j","k","l","m",
    "n","o","p","q","r","s","t","u","v","w","x","y","z">>

LowerChar(c) ==
  IF \E i \in 1..26 : UpperChars[i] = c
  THEN LowerChars[CHOOSE i \in 1..26 : UpperChars[i] = c]
  ELSE c

Lower(s) == [i \in 1..Len(s) |-> LowerChar(s[i])]

DigitChars == <<"0","1","2","3","4","5","6","7","8","9">>

\* the value of one digit in the given base, or -1
DigitVal(c, base) ==
  LET lc == LowerChar(c)
      v  == IF \E i \in 1..10 : DigitChars[i] = lc
            THEN (CHOOSE i \in 1..10 : DigitChars[i] = lc) - 1
            ELSE IF \E i \in 1..6 : LowerChars[i] = lc
            THEN (CHOOSE i \in 1..6 : LowerChars[i] = lc) + 9
            ELSE -1
  IN  IF v < base THEN v ELSE -1

\* digits with single underscores between them (or right after a base prefix)
RECURSIVE DigitsValue(_, _, _, _)
DigitsValue(s, base, acc, prevDigit) ==
  IF s = <<>> THEN (IF prevDigit THEN acc ELSE -1)
  ELSE IF Head(s) = "_"
       THEN IF Tail(s) = <<>> \/ Head(Tail(s)) = "_" THEN -1
            ELSE DigitsValue(Tail(s), base, acc, FALSE)
  ELSE IF DigitVal(Head(s), base) = -1 THEN -1
  ELSE DigitsValue(Tail(s), base, acc * base + DigitVal(Head(s), base), TRUE)

\* the value of an unsigned literal (with its base prefix, if any), or -1
PyIntUnsigned(u, base) ==
  LET pre == base = 16 /\ Len(u) >= 2 /\ u[1] = "0" /\ u[2] \in {"x", "X"}
      v   == IF pre THEN SubSeq(u, 3, Len(u)) ELSE u
  IN  IF v = <<>> \/ (~pre /\ v[1] = "_") THEN -1
      ELSE DigitsValue(v, base, 0, FALSE)

\* Python's int(s, base) for base 10 or 16: [ok |-> FALSE] is ValueError
PyInt(s, base) ==
  LET Signed(t) == t # <<>> /\ t[1] \in {"-", "+"}
      Result(t, n) ==
        IF n = -1 THEN [ok |-> FALSE, val |-> 0]
        ELSE [ok |-> TRUE, val |-> IF Signed(t) /\ t[1] = "-" THEN 0 - n ELSE n]
      Parse(t) == Result(t, PyIntUnsigned(IF Signed(t) THEN Tail(t) ELSE t, base))
  IN  Parse(Strip(s))

----------------------------------------------------------------------------
(* Byte strings of the wire format *)

CRLF == <<"\r","\n">>

CRLFCRLF == <<"\r","\n","\r","\n">>

SP == <<" ">>

COLON == <<":">>

SEMI == <<";">>

B_transfer_encoding ==
  <<"t","r","a","n","s","f","e","r","-","e","n","c","o","d","i","n","g",":">>

B_content_length ==
  <<"c","o","n","t","e","n","t","-","l","e","n","g","t","h",":">>

B_chunked == <<"c","h","u","n","k","e","d">>

B_PUT == <<"P","U","T">>

B_POST == <<"P","O","S","T">>

B_PATCH == <<"P","A","T","C","H">>

----------------------------------------------------------------------------
(* parser.py: RequestBuffer *)

RequestBuffer ==
  [data |-> <<>>, position |-> 0, state |-> "RECEIVING_HEADERS",
   content_length |-> <<>>, is_chunked |-> FALSE, headers_end |-> <<>>,
   error |-> "None"]

\* "True", "False", or "BadRequestError" (raised)
RECURSIVE walk_chunks(_)
walk_chunks(chunks) ==
  LET Sized(chunk_size_end, parsed) ==
        LET chunk_size == parsed.val
            full_chunk_size == chunk_size_end + 2 + chunk_size + 2
        IN  IF ~parsed.ok THEN "BadRequestError"
            ELSE IF chunk_size = 0
            THEN IF Len(chunks) < chunk_size_end + 4 THEN "False"
                 ELSE IF Len(chunks) = chunk_size_end + 4
                 THEN IF PySlice(chunks, chunk_size_end, chunk_size_end + 4) # CRLFCRLF
                      THEN "BadRequestError" ELSE "True"
                 ELSE "BadRequestError"
            ELSE IF full_chunk_size > Len(chunks) THEN "False"
            ELSE IF PySlice(chunks, chunk_size_end + 2 + chunk_size,
                            chunk_size_end + 2 + chunk_size + 2) # CRLF
            THEN "BadRequestError"
            ELSE walk_chunks(PyFrom(chunks, full_chunk_size))
      SizeLine(chunk_size_end) ==
        IF chunk_size_end = -1 THEN "False"
        ELSE Sized(chunk_size_end,
                   PyInt(Split(PySlice(chunks, 0, chunk_size_end), SEMI)[1], 16))
  IN  IF chunks = <<>> THEN "False" ELSE SizeLine(Find(chunks, CRLF))

\* mutant: only the bytes of the last feed are scanned for chunk frames
has_final_chunk_last_feed_only(b) ==
  walk_chunks(PyFrom(b.data, Max2(b.position, b.headers_end[1])))

has_final_chunk(b) == walk_chunks(PyFrom(b.data, b.headers_end[1]))

\* the first header line that starts with the given lower-case prefix, or <<>>
RECURSIVE first_line_with(_, _)
first_line_with(lines, prefix) ==
  IF lines = <<>> THEN <<>>
  ELSE IF StartsWith(Lower(Head(lines)), prefix) THEN <<Head(lines)>>
  ELSE first_line_with(Tail(lines), prefix)

get_is_chunked(headers) ==
  LET Line(hit) ==
        IF hit = <<>> THEN FALSE
        ELSE Strip(Split1(hit[1], COLON)[2]) = B_chunked
  IN  Line(first_line_with(Split(headers, CRLF), B_transfer_encoding))

\* [raised |-> TRUE] is the ValueError of int(); val is None (<<>>) or <<n>>
get_content_length(headers) ==
  LET Value(n) ==
        IF n.ok THEN [raised |-> FALSE, val |-> <<n.val>>]
        ELSE [raised |-> TRUE, val |-> <<>>]
      Line(hit) ==
        IF hit = <<>> THEN [raised |-> FALSE, val |-> <<>>]
        ELSE Value(PyInt(Strip(Split1(hit[1], COLON)[2]), 10))
  IN  Line(first_line_with(Split(headers, CRLF), B_content_length))

\* [raised |-> TRUE] is BadRequestError
get_http_method(headers) ==
  LET Method(first_line) ==
        IF Len(first_line) # 3 THEN [raised |-> TRUE, val |-> <<>>]
        ELSE [raised |-> FALSE, val |-> first_line[1]]
  IN  Method(Split(Split(headers, CRLF)[1], SP))

Returned(b) == [buf |-> b, raised |-> "None"]

BadRequest(b) ==
  Returned([b EXCEPT !.state = "ERROR", !.error = "BAD_REQUEST"])

\* the RECEIVING_CHUNKS branch, also run right after the header block
try_parse_chunks(b) ==
  LET Outcome(final_chunk) ==
        IF final_chunk = "BadRequestError" THEN BadRequest(b)
        ELSE IF final_chunk = "True"
        THEN Returned([b EXCEPT !.state = "CHUNKS_COMPLETE"])
        ELSE Returned(b)
  IN  Outcome(has_final_chunk(b))

try_parse_body(b) ==
  LET current_body_size == Len(b.data) - b.headers_end[1]
  IN  IF b.content_length = <<>> \/ current_body_size >= b.content_length[1]
      THEN Returned([b EXCEPT !.state = "COMPLETE"])
      ELSE Returned(b)

try_parse_headers(b) ==
  LET Body(b2, method) ==
        LET body_required == method.val \in {B_PUT, B_POST, B_PATCH}
            b3 == [b2 EXCEPT !.state = "RECEIVING_BODY"]
        IN  IF method.raised THEN BadRequest(b2)
            ELSE IF b2.content_length = <<>> /\ body_required THEN BadRequest(b2)
            ELSE IF (b2.content_length = <<>> /\ ~body_required)
                    \/ b2.content_length = <<0>>
            THEN Returned([b2 EXCEPT !.state = "COMPLETE"])
            ELSE IF Len(b3.data) - b3.headers_end[1] >= b3.content_length[1]
            THEN Returned([b3 EXCEPT !.state = "COMPLETE"])
            ELSE Returned(b3)
      Length(b1, headers_data, cl) ==
        IF cl.raised THEN [buf |-> b1, raised |-> "ValueError"]
        ELSE Body([b1 EXCEPT !.content_length = cl.val],
                  get_http_method(headers_data))
      Framing(b1, headers_data) ==
        LET b3 == [b1 EXCEPT !.state = "RECEIVING_CHUNKS"]
        IN  IF b1.is_chunked
            THEN IF Len(b3.data) - b3.headers_end[1] > 0
                 THEN try_parse_chunks(b3) ELSE Returned(b3)
            ELSE Length(b1, headers_data, get_content_length(headers_data))
      Headers(separator_index, headers_data) ==
        Framing([b EXCEPT !.headers_end = <<separator_index + 4>>,
                          !.is_chunked = get_is_chunked(headers_data)],
                headers_data)
      Separator(separator_index) ==
        IF separator_index = -1 THEN Returned(b)
        ELSE Headers(separator_index, PySlice(b.data, 0, separator_index))
  IN  Separator(Find(b.data, CRLFCRLF))

\* mutant: a buffer in a terminal state is parsed again from its headers
try_parse_terminal_reparsed(b) ==
  IF b.state = "RECEIVING_BODY" THEN try_parse_body(b)
  ELSE IF b.state = "RECEIVING_CHUNKS" THEN try_parse_chunks(b)
  ELSE try_parse_headers(b)

try_parse(b) ==
  IF b.state = "RECEIVING_HEADERS" THEN try_parse_headers(b)
  ELSE IF b.state = "RECEIVING_BODY" THEN try_parse_body(b)
  ELSE IF b.state = "RECEIVING_CHUNKS" THEN try_parse_chunks(b)
  ELSE Returned(b)

\* [buf, raised, ret]: ret is meaningful only when nothing was raised
feed_data(b, data) ==
  LET current_position == Len(b.data)
      Result(r) ==
        [buf |-> r.buf, raised |-> r.raised,
         ret |-> r.buf.state \in {"COMPLETE", "CHUNKS_COMPLETE"}]
  IN  Result(try_parse([b EXCEPT !.data = @ \o data,
                                !.position = current_position]))

\* the dechunking loop of get_last_chunks and get_request_body:
\* [raised, val]; raised is "None", "BadRequestError", "ValueError" (int() on
\* a size line that is not hex) or "Hang" (the loop makes no progress)
RECURSIVE dechunk(_, _)
dechunk(chunk, chunked_body) ==
  LET Sized(chunk_size_end, parsed) ==
        LET chunk_size == parsed.val
            full_chunk_size == chunk_size_end + 2 + chunk_size + 2
            chunk_value == PySlice(chunk, chunk_size_end + 2,
                                   chunk_size_end + 2 + chunk_size)
        IN  IF ~parsed.ok THEN [raised |-> "ValueError", val |-> <<>>]
            ELSE IF full_chunk_size > Len(chunk)
            THEN [raised |-> "BadRequestError", val |-> <<>>]
            ELSE IF PyFrom(chunk, full_chunk_size) = chunk
            THEN [raised |-> "Hang", val |-> <<>>]
            ELSE dechunk(PyFrom(chunk, full_chunk_size), chunked_body \o chunk_value)
      SizeLine(chunk_size_end) ==
        IF chunk_size_end = -1 THEN [raised |-> "BadRequestError", val |-> <<>>]
        ELSE Sized(chunk_size_end,
                   PyInt(Split(PySlice(chunk, 0, chunk_size_end), SEMI)[1], 16))
  IN  IF chunk = <<>> THEN [raised |-> "None", val |-> chunked_body]
      ELSE SizeLine(Find(chunk, CRLF))

get_last_chunks(b) ==
  IF b.state \notin {"RECEIVING_CHUNKS", "CHUNKS_COMPLETE"}
  THEN [raised |-> "RuntimeError", val |-> <<>>]
  ELSE dechunk(PyFrom(b.data, b.position), <<>>)

get_request_headers(b) ==
  IF b.state \notin {"COMPLETE", "CHUNKS_COMPLETE", "RECEIVING_BODY", "RECEIVING_CHUNKS"}
  THEN [raised |-> "RuntimeError", val |-> <<>>]
  ELSE [raised |-> "None", val |-> PySlice(b.data, 0, b.headers_end[1])]

\* mutant: everything after the header block is returned
get_request_body_to_end(b) ==
  [raised |-> "None", val |-> PyFrom(b.data, b.headers_end[1])]

get_request_body(b) ==
  IF b.state \notin {"COMPLETE", "CHUNKS_COMPLETE"}
  THEN [raised |-> "RuntimeError", val |-> <<>>]
  ELSE IF b.state = "COMPLETE"
  THEN [raised |-> "None",
        val |-> IF b.content_length # <<>> /\ b.content_length # <<0>>
                THEN PySlice(b.data, b.headers_end[1],
                             b.headers_end[1] + b.content_length[1])
                ELSE <<>>]
  ELSE dechunk(PyFrom(b.data, b.headers_end[1]), <<>>)

\* the methods parse_headers accepts
Methods ==
  {<<"G","E","T">>, B_POST, B_PUT, <<"D","E","L","E","T","E">>,
   <<"H","E","A","D">>, <<"C","O","N","N","E","C","T">>,
   <<"O","P","T","I","O","N","S">>, <<"T","R","A","C","E">>, B_PATCH}

\* the versions parse_headers accepts
Versions == {<<"1",".","0">>, <<"1">>, <<"1",".","1">>}

B_host == <<"h","o","s","t">>

B_connection == <<"c","o","n","n","e","c","t","i","o","n">>

B_close == <<"c","l","o","s","e">>

V_1_1 == <<"1",".","1">>

NoScope ==
  [method |-> <<>>, path |-> <<>>, raw_path |-> <<>>, query_string |-> <<>>,
   headers |-> <<>>, http_version |-> <<>>]

\* the loop over header_lines[1:]: [raised, has_host, parsed_headers]
RECURSIVE parse_header_lines(_, _, _)
parse_header_lines(lines, has_host, parsed_headers) ==
  IF lines = <<>>
  THEN [raised |-> FALSE, has_host |-> has_host, parsed_headers |-> parsed_headers]
  ELSE
    LET line == Head(lines)
        Named(nv, name) ==
          parse_header_lines(Tail(lines),
                             has_host \/ (name = B_host /\ nv[2] # <<>>),
                             Append(parsed_headers, <<name, Strip(nv[2])>>))
        Pair(nv) ==
          IF Len(nv) # 2
          THEN [raised |-> TRUE, has_host |-> has_host,
                parsed_headers |-> parsed_headers]
          ELSE Named(nv, Lower(Strip(nv[1])))
    IN  IF line = <<>> \/ StartsWith(line, COLON)
        THEN parse_header_lines(Tail(lines), has_host, parsed_headers)
        ELSE Pair(Split1(line, COLON))

\* [raised, value, scope]: raised is "None", "BadRequestError" or
\* "UnsupportedProtocolError" (value: the argument the exception was built with)
parse_headers(headers) ==
  LET Fail(exc, v) == [raised |-> exc, value |-> v, scope |-> NoScope]
      Build(method, path, version, first_line_bytes, raw_path_start,
            raw_query_start, hl) ==
        LET raw_path ==
              IF raw_query_start = -1
              THEN PySlice(first_line_bytes, raw_path_start,
                           FindFrom(first_line_bytes, SP, raw_path_start))
              ELSE PySlice(first_line_bytes, raw_path_start, raw_query_start)
            query ==
              IF raw_query_start = -1 THEN <<>>
              ELSE PySlice(first_line_bytes, raw_query_start + 1,
                           FindFrom(first_line_bytes, SP, raw_query_start))
        IN  IF hl.raised \/ ~hl.has_host THEN Fail("BadRequestError", <<>>)
            ELSE [raised |-> "None", value |-> <<>>,
                  scope |-> [method |-> method, path |-> path,
                             raw_path |-> raw_path, query_string |-> query,
                             headers |-> hl.parsed_headers,
                             http_version |-> version[Len(version)]]]
      Path(header_lines, method, full_path, version, first_line_bytes,
           raw_path_start) ==
        Build(method, Split(full_path, <<"?">>)[1], version, first_line_bytes,
              raw_path_start,
              FindFrom(first_line_bytes, <<"?">>, raw_path_start),
              parse_header_lines(Tail(header_lines), FALSE, <<>>))
      Version(header_lines, first_line, version) ==
        IF Len(version) # 2 THEN Fail("BadRequestError", <<>>)
        ELSE IF version[2] \notin Versions
        THEN Fail("UnsupportedProtocolError", version)
        ELSE Path(header_lines, first_line[1], first_line[2], version,
                  header_lines[1], Find(header_lines[1], SP) + 1)
      FirstLine(header_lines, first_line) ==
        IF Len(first_line) # 3 THEN Fail("BadRequestError", <<>>)
        ELSE IF first_line[1] \notin Methods
        THEN Fail("BadRequestError", <<>>)
        ELSE Version(header_lines, first_line, Split(first_line[3], <<"/">>))
      Lines(header_lines) == FirstLine(header_lines, Split(header_lines[1], SP))
  IN  Lines(Split(headers, CRLF))

----------------------------------------------------------------------------
(* handlers.py *)

\* a timer handle is "None" (no handle), "pending", "cancelled" or "fired"
TimeoutHandler == [request_timeout_handle |-> "None", keepalive_timeout_handle |-> "None"]

cancel(handle) == IF handle = "pending" THEN "cancelled" ELSE handle

\* mutant: the keep-alive handle is never cancelled
cancel_timeout_handle_request_only(t, type) ==
  [request_timeout_handle |->
     IF type \in {"REQUEST", "ALL"} THEN cancel(t.request_timeout_handle)
     ELSE t.request_timeout_handle,
   keepalive_timeout_handle |-> t.keepalive_timeout_handle]

cancel_timeout_handle(t, type) ==
  [request_timeout_handle |->
     IF type \in {"REQUEST", "ALL"} THEN cancel(t.request_timeout_handle)
     ELSE t.request_timeout_handle,
   keepalive_timeout_handle |->
     IF type \in {"KEEP_ALIVE", "ALL"} THEN cancel(t.keepalive_timeout_handle)
     ELSE t.keepalive_timeout_handle]

\* the old handle of the kind is cancelled and replaced by a new pending one
reset_timeout(t, type) ==
  [request_timeout_handle |->
     IF type \in {"REQUEST", "ALL"} THEN "pending" ELSE t.request_timeout_handle,
   keepalive_timeout_handle |->
     IF type \in {"KEEP_ALIVE", "ALL"} THEN "pending" ELSE t.keepalive_timeout_handle]

\* the transport as the protocol sees it; every write() call is logged with
\* what is_closing() was when it was made
Transport == [closing |-> FALSE, close_calls |-> 0, written |-> <<>>]

transport_write(tr, data) ==
  [tr EXCEPT !.written = Append(@, [data |-> data, closing |-> tr.closing])]

transport_close(tr) == [tr EXCEPT !.closing = TRUE, !.close_calls = @ + 1]

RESP_408 ==
  <<"H","T","T","P","/","1",".","1"," ","4","0","8"," ","R","e","q","u","e","s","t"," ","T","i",
    "m","e","o","u","t","\r","\n","C","o","n","t","e","n","t","-","T","y","p","e",":"," ","t",
    "e","x","t","/","p","l","a","i","n","\r","\n","C","o","n","n","e","c","t","i","o","n",":",
    " ","c","l","o","s","e","\r","\n","\r","\n","R","e","q","u","e","s","t"," ","t","i","m","e",
    "d"," ","o","u","t">>

RESP_400 ==
  <<"H","T","T","P","/","1",".","1"," ","4","0","0"," ","B","a","d"," ","R","e","q","u","e","s",
    "t","\r","\n","C","o","n","t","e","n","t","-","T","y","p","e",":"," ","t","e","x","t","/",
    "p","l","a","i","n","\r","\n","C","o","n","n","e","c","t","i","o","n",":"," ","c","l","o",
    "s","e","\r","\n","\r","\n">>

RESP_411 ==
  <<"H","T","T","P","/","1",".","1"," ","4","1","1"," ","L","e","n","g","t","h"," ","R","e","q",
    "u","i","r","e","d","\r","\n","C","o","n","t","e","n","t","-","T","y","p","e",":"," ","t",
    "e","x","t","/","p","l","a","i","n","\r","\n","C","o","n","n","e","c","t","i","o","n",":",
    " ","c","l","o","s","e","\r","\n","\r","\n">>

RESP_500 ==
  <<"H","T","T","P","/","1",".","1"," ","5","0","0"," ","I","n","t","e","r","n","a","l"," ","S",
    "e","r","v","e","r"," ","E","r","r","o","r","\r","\n","C","o","n","t","e","n","t","-","T",
    "y","p","e",":"," ","t","e","x","t","/","p","l","a","i","n","\r","\n","C","o","n","n","e",
    "c","t","i","o","n",":"," ","c","l","o","s","e","\r","\n","\r","\n">>

RESP_505_HEAD ==
  <<"H","T","T","P","/","1",".","1"," ","5","0","5"," ","H","T","T","P"," ","V","e","r","s","i",
    "o","n"," ","N","o","t"," ","S","u","p","p","o","r","t","e","d","\r","\n","C","o","n","t",
    "e","n","t","-","T","y","p","e",":"," ","t","e","x","t","/","p","l","a","i","n","\r","\n",
    "C","o","n","n","e","c","t","i","o","n",":"," ","c","l","o","s","e","\r","\n">>

B_Unsupported_protocol ==
  <<"U","n","s","u","p","p","o","r","t","e","d"," ","p","r","o","t","o","c","o","l",":"," ">>

B_Content_Length ==
  <<"C","o","n","t","e","n","t","-","L","e","n","g","t","h",":"," ">>

\* mutant: the 408 response is written but the transport is not closed
send_timeout_response_no_close(tr) == transport_write(tr, RESP_408)

send_timeout_response(tr) == transport_close(transport_write(tr, RESP_408))

\* mutant: the 400 response is written but the transport is not closed
send_bad_request_response_no_close(tr) == transport_write(tr, RESP_400)

send_bad_request_response(tr) == transport_close(transport_write(tr, RESP_400))

send_length_required_response(tr) == transport_close(transport_write(tr, RESP_411))

send_internal_server_error_response(tr) == transport_close(transport_write(tr, RESP_500))

\* str(n) for an integer n >= 0
RECURSIVE PyStr(_)
PyStr(n) ==
  IF n < 10 THEN <<DigitChars[n + 1]>>
  ELSE PyStr(n \div 10) \o <<DigitChars[(n % 10) + 1]>>

\* [raised, transport]: bytes(str) without an encoding is a TypeError, raised
\* while the Content-Length header is built, before anything is written
send_protocol_error_response(tr, error_msg) ==
  LET body == B_Unsupported_protocol \o error_msg
      content_len_header == B_Content_Length \o PyStr(Len(body)) \o CRLF
      bytes_of_str_raises == TRUE
  IN  IF bytes_of_str_raises THEN [raised |-> "TypeError", transport |-> tr]
      ELSE [raised |-> "None",
            transport |-> transport_close(transport_write(tr,
                            RESP_505_HEAD \o content_len_header \o CRLF \o body))]

ASGIResponseHandler ==
  [started |-> FALSE, status |-> <<>>, headers |-> <<>>, scope |-> <<>>]

----------------------------------------------------------------------------
(* protocol.py: HttpServerProtocol *)

MAX_KEEP_ALIVE_REQUESTS == 100

B_HTTP11_SP ==
  <<"H","T","T","P","/","1",".","1"," ">>

\* the ASGI scope built by data_received from the parsed headers
Scope(parsed_headers) ==
  [type |-> "http", http_version |-> parsed_headers.http_version,
   method |-> parsed_headers.method, scheme |-> "http",
   path |-> parsed_headers.path, raw_path |-> parsed_headers.raw_path,
   query_string |-> parsed_headers.query_string,
   headers |-> parsed_headers.headers]

\* asyncio.create_task(self.handle_request(scope)): the task is scheduled and
\* runs later; req names the request the task is for; while the task runs,
\* received holds what its receive calls returned and sent the last message
\* its send accepted; exc is the exception that ended it
Task(scope, req) ==
  [scope |-> scope, pc |-> "scheduled", req |-> req, received |-> <<>>,
   sent |-> "none", exc |-> "None"]

\* an exception leaves data_received: asyncio's transport treats it as a fatal
\* error and force-closes the connection without the protocol calling close()
Escaped(st, exc) == [st EXCEPT !.raised = exc, !.transport.closing = TRUE]

\* mutant: the completed request's buffer is kept
request_completed_buffer_kept(st) ==
  [st EXCEPT !.request_count = @ + 1,
             !.timeout_handler = cancel_timeout_handle(@, "REQUEST")]

\* the end of data_received for a request the parser has completed
request_completed(st) ==
  [st EXCEPT !.request_count = @ + 1,
             !.buffer = RequestBuffer,
             !.timeout_handler = cancel_timeout_handle(@, "REQUEST")]

\* the state data_received(data) leaves behind; req numbers the request the
\* bytes belong to
data_received(data, req) ==
  LET t1 == cancel_timeout_handle(reset_timeout(timeout_handler, "REQUEST"), "KEEP_ALIVE")
      all_cancelled == cancel_timeout_handle(t1, "ALL")
      Headers(st, f, parsed_headers) ==
        LET spawned == Append(tasks, Task(Scope(parsed_headers.scope), req))
        IN  IF parsed_headers.raised = "UnsupportedProtocolError"
            THEN \* protocol_error.value: UnsupportedProtocolError has no such attribute
                 Escaped([st EXCEPT !.timeout_handler = all_cancelled], "AttributeError")
            ELSE IF parsed_headers.raised = "BadRequestError"
            THEN [st EXCEPT !.timeout_handler = all_cancelled,
                            !.transport = send_bad_request_response(transport)]
            ELSE IF f.buf.state \in {"CHUNKS_COMPLETE", "COMPLETE"}
            THEN request_completed([st EXCEPT !.tasks = spawned])
            ELSE [st EXCEPT !.tasks = spawned]
      Fed(st, f) ==
        IF f.raised # "None" THEN Escaped(st, f.raised)
        ELSE IF f.buf.state \in {"RECEIVING_CHUNKS", "CHUNKS_COMPLETE", "COMPLETE"}
        THEN Headers(st, f, parse_headers(get_request_headers(f.buf).val))
        ELSE IF f.buf.state = "ERROR"
        THEN [st EXCEPT !.timeout_handler = all_cancelled,
                        !.transport = IF f.buf.error = "LENGTH_REQUIRED"
                                      THEN send_length_required_response(transport)
                                      ELSE send_bad_request_response(transport)]
        ELSE st
      Feed(f) ==
        Fed([timeout_handler |-> t1, buffer |-> f.buf, transport |-> transport,
             tasks |-> tasks, request_count |-> request_count, raised |-> "None"], f)
  IN  Feed(feed_data(buffer, data))

\* the first header named connection, or <<>>
RECURSIVE first_connection_header(_)
first_connection_header(headers) ==
  IF headers = <<>> THEN <<>>
  ELSE IF Lower(Head(headers)[1]) = B_connection THEN <<Head(headers)>>
  ELSE first_connection_header(Tail(headers))

\* mutant: the limit is compared with > instead of >=
should_keep_alive_off_by_one(count, scope) ==
  LET hit == first_connection_header(scope.headers)
  IN  IF count > MAX_KEEP_ALIVE_REQUESTS THEN FALSE
      ELSE IF hit # <<>> THEN Lower(hit[1][2]) # B_close
      ELSE scope.http_version = V_1_1

should_keep_alive(count, scope) ==
  LET hit == first_connection_header(scope.headers)
  IN  IF count >= MAX_KEEP_ALIVE_REQUESTS THEN FALSE
      ELSE IF hit # <<>> THEN Lower(hit[1][2]) # B_close
      ELSE scope.http_version = V_1_1

\* the message _receive returns, or the exception it raises: [raised, msg]
NoMessage == [type |-> "none", body |-> <<>>, more_body |-> FALSE]

receive ==
  LET Request(b, more) ==
        [raised |-> "None",
         msg |-> [type |-> "http.request", body |-> b, more_body |-> more]]
      Body(body, more) ==
        IF body.raised # "None" THEN [raised |-> body.raised, msg |-> NoMessage]
        ELSE Request(body.val, more)
  IN  IF transport.closing
      THEN [raised |-> "None",
            msg |-> [type |-> "http.disconnect", body |-> <<>>, more_body |-> FALSE]]
      ELSE IF buffer.state \in {"RECEIVING_CHUNKS", "CHUNKS_COMPLETE"}
      THEN Body(get_last_chunks(buffer), buffer.state # "CHUNKS_COMPLETE")
      ELSE IF buffer.state = "COMPLETE"
      THEN Body(get_request_body(buffer), FALSE)
      ELSE Request(<<>>, FALSE)

\* the bytes _send writes for one http.response.body message
RECURSIVE header_lines(_)
header_lines(headers) ==
  IF headers = <<>> THEN <<>>
  ELSE Head(headers)[1] \o <<":", " ">> \o Head(headers)[2] \o CRLF
       \o header_lines(Tail(headers))

response_bytes(a, body) ==
  B_HTTP11_SP \o PyStr(a.status[1]) \o CRLF \o header_lines(a.headers) \o CRLF \o body

\* mutant: _send does not look at is_closing()
send_to_closing_transport(message) ==
  LET st == [raised |-> "None", asgi |-> asgi, transport |-> transport,
             timeout_handler |-> timeout_handler]
      written == transport_write(transport, response_bytes(asgi, message.body))
  IN  IF message.type = "http.response.start"
      THEN [st EXCEPT !.asgi = [asgi EXCEPT !.started = TRUE,
                                            !.status = <<message.status>>,
                                            !.headers = message.headers]]
      ELSE IF ~asgi.started THEN [st EXCEPT !.raised = "RuntimeError"]
      ELSE IF message.more_body THEN [st EXCEPT !.transport = written]
      ELSE IF ~should_keep_alive(request_count, asgi.scope)
      THEN [st EXCEPT !.timeout_handler = cancel_timeout_handle(timeout_handler, "ALL"),
                      !.transport = transport_close(written)]
      ELSE [st EXCEPT !.transport = written,
                      !.timeout_handler = reset_timeout(timeout_handler, "KEEP_ALIVE")]

\* what _send(message) does: [raised, asgi, transport, timeout_handler]
send(message) ==
  LET st == [raised |-> "None", asgi |-> asgi, transport |-> transport,
             timeout_handler |-> timeout_handler]
      written == transport_write(transport, response_bytes(asgi, message.body))
  IN  IF transport.closing THEN [st EXCEPT !.raised = "OSError"]
      ELSE IF message.type = "http.response.start"
      THEN [st EXCEPT !.asgi = [asgi EXCEPT !.started = TRUE,
                                            !.status = <<message.status>>,
                                            !.headers = message.headers]]
      ELSE IF message.type = "http.response.body"
      THEN IF ~asgi.started THEN [st EXCEPT !.raised = "RuntimeError"]
           ELSE IF message.more_body THEN [st EXCEPT !.transport = written]
           ELSE IF ~should_keep_alive(request_count, asgi.scope)
           THEN [st EXCEPT !.timeout_handler = cancel_timeout_handle(timeout_handler, "ALL"),
                           !.transport = transport_close(written)]
           ELSE [st EXCEPT !.transport = written,
                           !.timeout_handler = reset_timeout(timeout_handler, "KEEP_ALIVE")]
      ELSE st

\* mutant: OSError is answered like any other exception
handle_exception_no_swallow(st, exc) ==
  [st EXCEPT !.timeout_handler = cancel_timeout_handle(st.timeout_handler, "ALL"),
             !.transport = send_internal_server_error_response(st.transport)]

\* handle_request's except clauses, for an exception that leaves the
\* application: [transport, timeout_handler]
handle_exception(st, exc) ==
  IF exc = "OSError" THEN st
  ELSE [st EXCEPT !.timeout_handler = cancel_timeout_handle(st.timeout_handler, "ALL"),
                  !.transport = send_internal_server_error_response(st.transport)]

----------------------------------------------------------------------------
(* The Server object *)

\* Server.__init__, with the tasks that run its coroutines:
\*   main      where the task running _run_ (start, server_loop, shutdown) is
\*   lifespan  where the task running handle_lifespan is
\*   signal    where the task created by the signal handler is
\*   sleeping  the tasks inside asyncio.sleep(0.1), in the order of their calls
\*   received  what the application's last lifespan receive returned
\*   sent      the lifespan message types the application has sent
\*   failed    startup.failed was sent, or the application raised, before
\*             _lifespan_state["startup"] was set
Server ==
  [startup |-> FALSE, shutdown |-> FALSE, event |-> FALSE, servers |-> 0,
   closed |-> FALSE, main |-> "none", lifespan |-> "none", signal |-> "none",
   sleeping |-> <<>>, received |-> "none", sent |-> {}, failed |-> FALSE]

----------------------------------------------------------------------------
(* The requests the peer sends *)

RL_GET11 ==
  <<"G","E","T"," ","/"," ","H","T","T","P","/","1",".","1","\r","\n">>

RL_GET10 ==
  <<"G","E","T"," ","/"," ","H","T","T","P","/","1",".","0","\r","\n">>

RL_GET20 ==
  <<"G","E","T"," ","/"," ","H","T","T","P","/","2",".","0","\r","\n">>

RL_POST11 ==
  <<"P","O","S","T"," ","/","u","?","q"," ","H","T","T","P","/","1",".","1","\r","\n">>

RL_INVALID ==
  <<"I","N","V","A","L","I","D","\r","\n">>

H_HOST ==
  <<"H","o","s","t",":","h","\r","\n">>

H_CLOSE ==
  <<"C","o","n","n","e","c","t","i","o","n",":"," ","C","l","o","s","e","\r","\n">>

H_KEEP ==
  <<"C","o","n","n","e","c","t","i","o","n",":","k","e","e","p","-","a","l","i","v","e","\r",
    "\n">>

H_CL3 ==
  <<"C","o","n","t","e","n","t","-","L","e","n","g","t","h",":"," ","3","\r","\n">>

H_CL0 ==
  <<"C","o","n","t","e","n","t","-","L","e","n","g","t","h",":","0","\r","\n">>

H_CLBAD ==
  <<"C","o","n","t","e","n","t","-","L","e","n","g","t","h",":","x","\r","\n">>

H_CHUNKED ==
  <<"T","r","a","n","s","f","e","r","-","E","n","c","o","d","i","n","g",":"," ","c","h","u","n",
    "k","e","d","\r","\n">>

BODY_abc ==
  <<"a","b","c">>

CH_ab ==
  <<"2","\r","\n","a","b","\r","\n">>

CH_crlf ==
  <<"2",";","x","\r","\n","\r","\n","\r","\n">>

CH_LAST ==
  <<"0","\r","\n","\r","\n">>

CH_BADHEX ==
  <<"z","\r","\n">>

CH_NOCRLF ==
  <<"1","\r","\n","a","b","c">>

HEAD_CHUNKED == RL_POST11 \o H_HOST \o H_CHUNKED \o CRLF

W_GET == RL_GET11 \o H_HOST \o CRLF

W_GET_CLOSE == RL_GET11 \o H_HOST \o H_CLOSE \o CRLF

W_GET10 == RL_GET10 \o H_HOST \o CRLF

W_GET10_KEEP == RL_GET10 \o H_HOST \o H_KEEP \o CRLF

W_POST_CL3 == RL_POST11 \o H_HOST \o H_CL3 \o CRLF \o BODY_abc

W_POST_CL0 == RL_POST11 \o H_HOST \o H_CL0 \o CRLF

W_POST_CHUNKED == HEAD_CHUNKED \o CH_ab \o CH_crlf \o CH_LAST

W_POST_CHUNKED0 == HEAD_CHUNKED \o CH_LAST

W_GET20 == RL_GET20 \o H_HOST \o CRLF

W_NOHOST == RL_GET11 \o CRLF

W_INVALID == RL_INVALID \o CRLF

W_POST_NOCL == RL_POST11 \o H_HOST \o CRLF

W_CLBAD == RL_GET11 \o H_HOST \o H_CLBAD \o CRLF

W_CHUNK_BADHEX == HEAD_CHUNKED \o CH_BADHEX

W_CHUNK_NOCRLF == HEAD_CHUNKED \o CH_NOCRLF

W_CHUNK_TRAIL == HEAD_CHUNKED \o CH_LAST \o BODY_abc

H_CLOSE_UP ==
  <<"C","o","n","n","e","c","t","i","o","n",":","C","L","O","S","E","\r","\n">>

B_content_type ==
  <<"c","o","n","t","e","n","t","-","t","y","p","e">>

B_text_plain ==
  <<"t","e","x","t","/","p","l","a","i","n">>

BODY_hi ==
  <<"h","i">>

W_POST_CHUNKED1 == HEAD_CHUNKED \o CH_ab \o CH_LAST

\* request line, headers, CRLF CRLF, then no body, a body of exactly
\* Content-Length bytes, or a chunked body ending with the zero chunk
WellFormedWires ==
  {W_GET, W_GET_CLOSE, W_GET10, W_GET10_KEEP, W_POST_CL3, W_POST_CL0,
   W_POST_CHUNKED, W_POST_CHUNKED0}

MalformedWires ==
  {W_INVALID, W_POST_NOCL, W_CLBAD, W_CHUNK_BADHEX, W_CHUNK_NOCRLF, W_CHUNK_TRAIL,
   HEAD_CHUNKED \o CH_ab \o CH_BADHEX, HEAD_CHUNKED \o CH_ab \o CH_NOCRLF}

\* a complete request followed by the first bytes of the next one
PipelinedWires == {W_GET \o B_PUT, W_POST_CL3 \o B_PUT, W_POST_CL0 \o B_PUT}

ParserWires ==
  WellFormedWires \cup MalformedWires \cup PipelinedWires \cup {W_GET20, W_NOHOST}

----------------------------------------------------------------------------
(* The parser alone: one RequestBuffer fed the pieces of one request *)

InitParser ==
  /\ mode = "parser"
  /\ server = Server
  /\ wire \in ParserWires
  /\ fed = 0
  /\ buffer = RequestBuffer
  /\ raised = "None"
  /\ ret = FALSE
  /\ reqno = 1
  /\ transport = Transport
  /\ timeout_handler = TimeoutHandler
  /\ asgi = ASGIResponseHandler
  /\ request_count = 0
  /\ tasks = <<>>
  /\ lost = FALSE

\* one feed_data call with the next n bytes of the wire
Feed ==
  /\ mode = "parser"
  /\ \E n \in 1..(Len(wire) - fed) :
       \E r \in {feed_data(buffer, SubSeq(wire, fed + 1, fed + n))} :
           /\ buffer' = r.buf
           /\ raised' = r.raised
           /\ ret' = r.ret
           /\ fed' = fed + n
  /\ UNCHANGED <<mode, server, wire, reqno, transport, timeout_handler, asgi,
                 request_count, tasks, lost>>

SpecParser == InitParser /\ [][Feed]_vars

----------------------------------------------------------------------------
(* should_keep_alive alone, applied to a request count and a parsed request *)

KeepAliveCounts ==
  {0, 1, 2, MAX_KEEP_ALIVE_REQUESTS - 2, MAX_KEEP_ALIVE_REQUESTS - 1,
   MAX_KEEP_ALIVE_REQUESTS, MAX_KEEP_ALIVE_REQUESTS + 1}

KeepAliveRequests ==
  {W_GET, W_GET_CLOSE, W_GET10, W_GET10_KEEP,
   RL_GET11 \o H_HOST \o H_CLOSE_UP \o CRLF,
   RL_GET10 \o H_HOST \o H_KEEP \o H_CLOSE \o CRLF,
   RL_GET11 \o H_CLOSE \o H_HOST \o H_KEEP \o CRLF,
   RL_GET10 \o H_HOST \o H_CLOSE \o CRLF}

InitKeepAlive ==
  /\ mode = "keepalive"
  /\ server = Server
  /\ wire \in KeepAliveRequests
  /\ fed = 0
  /\ buffer = RequestBuffer
  /\ raised = "None"
  /\ ret = FALSE
  /\ reqno = 1
  /\ transport = Transport
  /\ timeout_handler = TimeoutHandler
  /\ asgi = [ASGIResponseHandler EXCEPT !.scope = Scope(parse_headers(wire).scope)]
  /\ request_count \in KeepAliveCounts
  /\ tasks = <<>>
  /\ lost = FALSE

Decide ==
  /\ mode = "keepalive"
  /\ mode' = "keepalive_decided"
  /\ ret' = should_keep_alive(request_count, asgi.scope)
  /\ UNCHANGED <<server, wire, fed, buffer, raised, reqno, transport, timeout_handler,
                 asgi, request_count, tasks, lost>>

SpecKeepAlive == InitKeepAlive /\ [][Decide]_vars

----------------------------------------------------------------------------
(* One connection: the peer, the event loop's callbacks and the application  *)
(* tasks.  Each application step is one call of receive or send, a raise or  *)
(* a return; an exception raised by receive or send is not caught by the     *)
(* application and reaches handle_request.                                   *)

MaxRequests == 2

MaxTasks == 2

MaxReceives == 1

MaxWrites == 2

ConnWires ==
  {W_GET, W_GET_CLOSE, W_POST_CL3, W_POST_CHUNKED1, W_GET20, W_NOHOST,
   W_INVALID, W_POST_NOCL, W_CLBAD, W_CHUNK_BADHEX}

\* where the peer's bytes may be cut into data_received calls: after the
\* request line, after the header block, in the body at the end of a line and
\* one byte after it, and at the end of the request
CutOffsets(w) ==
  LET first_line_end == Find(w, CRLF) + 2
      headers_end == Find(w, CRLFCRLF) + 4
  IN  {k \in 1..Len(w) :
         \/ k = Len(w)
         \/ k = first_line_end
         \/ k = headers_end
         \/ (k > headers_end /\ w[k - 1] = "\r" /\ w[k] = "\n")
         \/ (k > headers_end /\ w[k - 2] = "\r" /\ w[k - 1] = "\n")}

StartMessages ==
  {[type |-> "http.response.start", status |-> 200,
    headers |-> << <<B_content_type, B_text_plain>> >>, body |-> <<>>,
    more_body |-> FALSE]}

BodyMessages ==
  {[type |-> "http.response.body", status |-> 0, headers |-> <<>>,
    body |-> BODY_hi, more_body |-> m] : m \in BOOLEAN}

AppExceptions == {"OSError", "RuntimeError"}

InitConn ==
  /\ mode = "conn"
  /\ server = Server
  /\ wire = <<>>
  /\ fed = 0
  /\ buffer = RequestBuffer
  /\ raised = "None"
  /\ ret = FALSE
  /\ reqno = 0
  /\ transport = Transport
  /\ timeout_handler = TimeoutHandler
  /\ asgi = ASGIResponseHandler
  /\ request_count = 0
  /\ tasks = <<>>
  /\ lost = FALSE

\* the event loop calls data_received with the next bytes of the request the
\* peer is sending, or with the first bytes of its next request
DataReceived ==
  /\ mode = "conn"
  /\ ~lost
  /\ ~transport.closing
  /\ Len(tasks) < MaxTasks
  /\ \E w \in (IF fed = Len(wire) THEN ConnWires ELSE {wire}) :
       LET new == fed = Len(wire)
           start == IF new THEN 0 ELSE fed
           req == IF new THEN reqno + 1 ELSE reqno
       IN  /\ req <= MaxRequests
           /\ \E k \in {c \in CutOffsets(w) : c > start} :
                \E r \in {data_received(SubSeq(w, start + 1, k), req)} :
                  /\ wire' = w
                  /\ fed' = k
                  /\ reqno' = req
                  /\ buffer' = r.buffer
                  /\ raised' = r.raised
                  /\ transport' = r.transport
                  /\ timeout_handler' = r.timeout_handler
                  /\ tasks' = r.tasks
                  /\ request_count' = r.request_count
  /\ UNCHANGED <<mode, server, ret, asgi, lost>>

\* the loop runs a created task: handle_request binds the scope and enters
\* the application; tasks start in the order they were created
TaskStart ==
  /\ mode = "conn"
  /\ \E i \in 1..Len(tasks) :
       /\ tasks[i].pc = "scheduled"
       /\ \A j \in 1..(i - 1) : tasks[j].pc # "scheduled"
       /\ tasks' = [tasks EXCEPT ![i].pc = "running"]
       /\ asgi' = [asgi EXCEPT !.scope = tasks[i].scope]
  /\ UNCHANGED <<mode, server, wire, fed, buffer, raised, ret, reqno, transport,
                 timeout_handler, request_count, lost>>

\* the record of a task that has ended
Done(task, exc) ==
  [task EXCEPT !.pc = "done", !.received = <<>>, !.sent = "none", !.exc = exc]

\* the kind of a message send has accepted
Kind(m) ==
  IF m.type = "http.response.start" THEN "start"
  ELSE IF m.more_body THEN "body_more" ELSE "body_final"

\* the end of task i with exception exc leaving the application
Raise(i, st, exc) ==
  \E h \in {handle_exception(st, exc)} :
    /\ tasks' = [tasks EXCEPT ![i] = Done(@, exc)]
    /\ transport' = h.transport
    /\ timeout_handler' = h.timeout_handler

AppReceive ==
  /\ mode = "conn"
  /\ \E i \in 1..Len(tasks) :
       /\ tasks[i].pc = "running"
       /\ Len(tasks[i].received) < MaxReceives
       /\ \E r \in {receive} :
            IF r.raised = "None"
            THEN /\ tasks' = [tasks EXCEPT ![i].received = Append(@, r.msg)]
                 /\ UNCHANGED <<transport, timeout_handler>>
            ELSE IF r.raised = "Hang"
            THEN /\ tasks' = [tasks EXCEPT ![i].pc = "hung"]
                 /\ UNCHANGED <<transport, timeout_handler>>
            ELSE Raise(i, [transport |-> transport,
                           timeout_handler |-> timeout_handler], r.raised)
  /\ UNCHANGED <<mode, server, wire, fed, buffer, raised, ret, reqno, asgi,
                 request_count, lost>>

AppSend ==
  /\ mode = "conn"
  /\ \E i \in 1..Len(tasks) :
       /\ tasks[i].pc = "running"
       /\ \E m \in StartMessages \cup BodyMessages :
            \E r \in {send(m)} :
              /\ Len(r.transport.written) <= MaxWrites
              /\ asgi' = r.asgi
              /\ IF r.raised = "None"
                 THEN /\ tasks' = [tasks EXCEPT ![i].sent = Kind(m)]
                      /\ transport' = r.transport
                      /\ timeout_handler' = r.timeout_handler
                 ELSE Raise(i, r, r.raised)
  /\ UNCHANGED <<mode, server, wire, fed, buffer, raised, ret, reqno, request_count, lost>>

\* the application raises an exception of its own
AppRaise ==
  /\ mode = "conn"
  /\ \E i \in 1..Len(tasks) :
       /\ tasks[i].pc = "running"
       /\ \E exc \in AppExceptions :
            Raise(i, [transport |-> transport,
                      timeout_handler |-> timeout_handler], exc)
  /\ UNCHANGED <<mode, server, wire, fed, buffer, raised, ret, reqno, asgi,
                 request_count, lost>>

AppReturn ==
  /\ mode = "conn"
  /\ \E i \in 1..Len(tasks) :
       /\ tasks[i].pc = "running"
       /\ tasks' = [tasks EXCEPT ![i] = Done(@, "None")]
  /\ UNCHANGED <<mode, server, wire, fed, buffer, raised, ret, reqno, transport,
                 timeout_handler, asgi, request_count, lost>>

\* _timeout_expired: the pending request timer fires
RequestTimeout ==
  /\ mode = "conn"
  /\ timeout_handler.request_timeout_handle = "pending"
  /\ timeout_handler' = [timeout_handler EXCEPT !.request_timeout_handle = "fired"]
  /\ transport' = send_timeout_response(transport)
  /\ UNCHANGED <<mode, server, wire, fed, buffer, raised, ret, reqno, asgi,
                 request_count, tasks, lost>>

\* _keepalive_timeout_expired: the pending keep-alive timer fires
KeepAliveTimeout ==
  /\ mode = "conn"
  /\ timeout_handler.keepalive_timeout_handle = "pending"
  /\ timeout_handler' = [timeout_handler EXCEPT !.keepalive_timeout_handle = "fired"]
  /\ transport' = transport_close(transport)
  /\ UNCHANGED <<mode, server, wire, fed, buffer, raised, ret, reqno, asgi,
                 request_count, tasks, lost>>

\* connection_lost: the transport calls it once; it may or may not already
\* report is_closing() by then
ConnectionLost ==
  /\ mode = "conn"
  /\ ~lost
  /\ lost' = TRUE
  /\ timeout_handler' = cancel_timeout_handle(timeout_handler, "ALL")
  /\ \E is_closing \in {TRUE, transport.closing} :
       /\ ret' = is_closing
       /\ transport' = IF ~is_closing THEN transport_close(transport)
                       ELSE [transport EXCEPT !.closing = TRUE]
  /\ UNCHANGED <<mode, server, wire, fed, buffer, raised, reqno, asgi,
                 request_count, tasks>>

Next ==
  \/ DataReceived
  \/ TaskStart
  \/ AppReceive
  \/ AppSend
  \/ AppRaise
  \/ AppReturn
  \/ RequestTimeout
  \/ KeepAliveTimeout
  \/ ConnectionLost

Init == InitConn

Spec == Init /\ [][Next]_vars

----------------------------------------------------------------------------
(* One keep-alive connection used sequentially: the peer repeats one request *)
(* that asks for keep-alive, and sends it only after the response to the     *)
(* previous one is finished; the application answers each request with       *)
(* http.response.start and one final http.response.body.  No timer fires.    *)

SeqWires == {W_GET, RL_GET11 \o H_HOST \o H_KEEP \o CRLF, W_GET10_KEEP}

InitSeq ==
  /\ mode = "seq"
  /\ server = Server
  /\ wire \in SeqWires
  /\ fed = 0
  /\ buffer = RequestBuffer
  /\ raised = "None"
  /\ ret = FALSE
  /\ reqno = 0
  /\ transport = Transport
  /\ timeout_handler = TimeoutHandler
  /\ asgi = ASGIResponseHandler
  /\ request_count = 0
  /\ tasks = <<>>
  /\ lost = FALSE

\* data_received with the whole next request
SeqRequest ==
  /\ mode = "seq"
  /\ ~transport.closing
  /\ \A i \in DOMAIN tasks : tasks[i].pc = "done"
  /\ \E r \in {data_received(wire, reqno + 1)} :
       /\ fed' = Len(wire)
       /\ reqno' = reqno + 1
       /\ buffer' = r.buffer
       /\ raised' = r.raised
       /\ transport' = r.transport
       /\ timeout_handler' = r.timeout_handler
       /\ tasks' = r.tasks
       /\ request_count' = r.request_count
  /\ UNCHANGED <<mode, server, wire, ret, asgi, lost>>

\* handle_request binds the scope and enters the application
SeqTaskStart ==
  /\ mode = "seq"
  /\ \E i \in DOMAIN tasks :
       /\ tasks[i].pc = "scheduled"
       /\ tasks' = [tasks EXCEPT ![i].pc = "running"]
       /\ asgi' = [asgi EXCEPT !.scope = tasks[i].scope]
  /\ UNCHANGED <<mode, server, wire, fed, buffer, raised, ret, reqno, transport,
                 timeout_handler, request_count, lost>>

\* the application sends http.response.start, then a final http.response.body
SeqSend ==
  /\ mode = "seq"
  /\ \E i \in DOMAIN tasks :
       /\ tasks[i].pc = "running"
       /\ tasks[i].sent \in {"none", "start"}
       /\ \E m \in (IF tasks[i].sent = "none" THEN StartMessages
                    ELSE {b \in BodyMessages : ~b.more_body}) :
            \E r \in {send(m)} :
              /\ r.raised = "None"
              /\ asgi' = r.asgi
              /\ transport' = r.transport
              /\ timeout_handler' = r.timeout_handler
              /\ tasks' = [tasks EXCEPT ![i].sent = Kind(m)]
  /\ UNCHANGED <<mode, server, wire, fed, buffer, raised, ret, reqno, request_count, lost>>

\* the application returns once its response is finished
SeqReturn ==
  /\ mode = "seq"
  /\ \E i \in DOMAIN tasks :
       /\ tasks[i].pc = "running"
       /\ tasks[i].sent = "body_final"
       /\ tasks' = [tasks EXCEPT ![i] = Done(@, "None")]
  /\ UNCHANGED <<mode, server, wire, fed, buffer, raised, ret, reqno, transport,
                 timeout_handler, asgi, request_count, lost>>

NextSeq == SeqRequest \/ SeqTaskStart \/ SeqSend \/ SeqReturn

SpecSeq == InitSeq /\ [][NextSeq]_vars

---------------------------------------------------------------------------------------------------------------------------------------------------
(* The parser fed requests built from the bodies they carry *)

MaxChunks == 2

\* a size as the peer writes it: lowercase digits, no leading zeros
RECURSIVE Digits(_, _)
Digits(n, base) ==
  IF n < base
  THEN <<<<"0","1","2","3","4","5","6","7","8","9","a","b","c","d","e","f">>[n + 1]>>
  ELSE Digits(n \div base, base) \o Digits(n % base, base)

\* lists of at most MaxChunks frames, each a payload with a chunk extension
ChunkLists ==
  UNION {[1..n -> [payload : {BODY_abc, CRLF, CH_LAST, B_connection},
                   ext : {<<>>, <<";", "x">>}]] : n \in 0..MaxChunks}

\* the chunked request made of the frames fs and the zero chunk, and the body
\* it carries: [wire, body]
RECURSIVE Chunked(_)
Chunked(fs) ==
  IF fs = <<>> THEN [wire |-> HEAD_CHUNKED \o CH_LAST, body |-> <<>>]
  ELSE LET rest == Chunked(Tail(fs))
           f == Head(fs)
       IN  [wire |-> HEAD_CHUNKED \o Digits(Len(f.payload), 16) \o f.ext \o CRLF
                       \o f.payload \o CRLF
                       \o PyFrom(rest.wire, Len(HEAD_CHUNKED)),
            body |-> f.payload \o rest.body]

\* bodies and the bytes the peer sends after them
SizedBodies ==
  [body : {<<>>, BODY_abc, CH_LAST, B_connection}, extra : {<<>>, CRLF, BODY_hi}]

\* the request that declares the length of s.body and carries s.body and
\* s.extra
Sized(s) ==
  RL_POST11 \o H_HOST \o SubSeq(H_CL3, 1, 16) \o Digits(Len(s.body), 10) \o CRLF
    \o CRLF \o s.body \o s.extra

InitBody ==
  /\ mode = "body"
  /\ server = Server
  /\ wire \in {Chunked(fs).wire : fs \in ChunkLists} \cup {Sized(s) : s \in SizedBodies}
  /\ fed = 0
  /\ buffer = RequestBuffer
  /\ raised = "None"
  /\ ret = FALSE
  /\ reqno = 1
  /\ transport = Transport
  /\ timeout_handler = TimeoutHandler
  /\ asgi = ASGIResponseHandler
  /\ request_count = 0
  /\ tasks = <<>>
  /\ lost = FALSE

\* one feed_data call with the next n bytes of the wire; the header block
\* arrives in the first call
FeedBody ==
  /\ mode = "body"
  /\ \E n \in 1..(Len(wire) - fed) :
       /\ fed + n >= Find(wire, CRLFCRLF) + 4
       /\ \E r \in {feed_data(buffer, SubSeq(wire, fed + 1, fed + n))} :
            /\ buffer' = r.buf
            /\ raised' = r.raised
            /\ ret' = r.ret
            /\ fed' = fed + n
  /\ UNCHANGED <<mode, server, wire, reqno, transport, timeout_handler, asgi,
                 request_count, tasks, lost>>

SpecBody == InitBody /\ [][FeedBody]_vars

-----
(* The server's lifespan: start, the lifespan task, signals and shutdown *)

LifespanMessages ==
  {"lifespan.startup.complete", "lifespan.startup.failed",
   "lifespan.shutdown.complete", "lifespan.shutdown.failed"}

\* await asyncio.sleep(0.1): every sleep of server.py has the same delay, so
\* the event loop's timers fire in the order the sleeps were called.
sleep(s, task) == [s EXCEPT !.sleeping = Append(@, task)]

\* The tasks whose sleep may end next: the one that called sleep first.
wakeable_any_order(sleeping) == {sleeping[i] : i \in DOMAIN sleeping}

wakeable(sleeping) == {Head(sleeping)}

\* task.cancel() on every task other than the running one. A cancelled task
\* gets CancelledError at the await it is suspended in, which handle_lifespan's
\* `except Exception` does not catch: it runs no further application code.
cancel_tasks(s) ==
  [s EXCEPT !.lifespan = IF @ \in {"done", "none"} THEN @ ELSE "cancelled",
            !.signal = IF @ = "scheduled" THEN "cancelled" ELSE @,
            !.sleeping = SelectSeq(@, LAMBDA t : t # "lifespan")]

\* One turn of the polling loop of start(). RuntimeError leaves start() and
\* _run_(), and asyncio.run() cancels the tasks that are left.
start_poll(s) ==
  IF s.startup THEN [s EXCEPT !.main = "create_server"]
  ELSE IF s.event THEN cancel_tasks([s EXCEPT !.main = "RuntimeError"])
  ELSE sleep([s EXCEPT !.main = "start"], "main")

\* One turn of the polling loop of shutdown(), then the cancellation of the
\* remaining tasks; the gather is ServerGather.
shutdown_poll_no_cancel(s) ==
  IF s.shutdown THEN [s EXCEPT !.main = "gather"]
  ELSE sleep([s EXCEPT !.main = "shutdown"], "main")

shutdown_poll(s) ==
  IF s.shutdown THEN cancel_tasks([s EXCEPT !.main = "gather"])
  ELSE sleep([s EXCEPT !.main = "shutdown"], "main")

InitServer ==
  /\ mode = "server"
  /\ server = Server
  /\ wire = <<>>
  /\ fed = 0
  /\ buffer = RequestBuffer
  /\ raised = "None"
  /\ ret = FALSE
  /\ reqno = 0
  /\ transport = Transport
  /\ timeout_handler = TimeoutHandler
  /\ asgi = ASGIResponseHandler
  /\ request_count = 0
  /\ tasks = <<>>
  /\ lost = FALSE

\* start() up to its first await: the event, the lifespan task, the signal
\* handlers and the first turn of the polling loop.
ServerStart ==
  /\ mode = "server"
  /\ server.main = "none"
  /\ server' = start_poll([server EXCEPT !.lifespan = "scheduled"])
  /\ UNCHANGED <<mode, wire, fed, buffer, raised, ret, reqno, transport,
                 timeout_handler, asgi, request_count, tasks, lost>>

\* A sleep ends and its task goes on from the statement after it.
ServerWake ==
  /\ mode = "server"
  /\ server.sleeping # <<>>
  /\ \E task \in wakeable(server.sleeping) :
       LET i == CHOOSE k \in DOMAIN server.sleeping : server.sleeping[k] = task
           s == [server EXCEPT !.sleeping =
                   SubSeq(@, 1, i - 1) \o SubSeq(@, i + 1, Len(@))]
       IN server' =
            IF task = "main"
            THEN IF s.main = "start" THEN start_poll(s) ELSE shutdown_poll(s)
            ELSE IF s.lifespan = "send"
                 THEN [s EXCEPT !.startup = TRUE, !.lifespan = "app"]
                 ELSE [s EXCEPT !.received = "None", !.lifespan = "app"]
  /\ UNCHANGED <<mode, wire, fed, buffer, raised, ret, reqno, transport,
                 timeout_handler, asgi, request_count, tasks, lost>>

\* start() after the polling loop: the listener is bound and recorded, then
\* _run_ enters server_loop(). Binding is assumed to succeed.
ServerCreate ==
  /\ mode = "server"
  /\ server.main = "create_server"
  /\ server' = [server EXCEPT !.servers = @ + 1, !.main = "server_loop"]
  /\ UNCHANGED <<mode, wire, fed, buffer, raised, ret, reqno, transport,
                 timeout_handler, asgi, request_count, tasks, lost>>

\* server_loop() returns once the event is set, and shutdown() closes every
\* listener and awaits wait_closed().
ServerLoop ==
  /\ mode = "server"
  /\ server.main = "server_loop"
  /\ server.event
  /\ server' = [server EXCEPT !.closed = TRUE, !.main = "wait_closed"]
  /\ UNCHANGED <<mode, wire, fed, buffer, raised, ret, reqno, transport,
                 timeout_handler, asgi, request_count, tasks, lost>>

\* wait_closed() returns (the open connections are assumed to end) and
\* shutdown() enters its polling loop.
ServerWaitClosed ==
  /\ mode = "server"
  /\ server.main = "wait_closed"
  /\ server' = shutdown_poll(server)
  /\ UNCHANGED <<mode, wire, fed, buffer, raised, ret, reqno, transport,
                 timeout_handler, asgi, request_count, tasks, lost>>

\* The gather over the cancelled tasks returns and shutdown() is over.
ServerGather ==
  /\ mode = "server"
  /\ server.main = "gather"
  /\ server' = [server EXCEPT !.main = "terminated"]
  /\ UNCHANGED <<mode, wire, fed, buffer, raised, ret, reqno, transport,
                 timeout_handler, asgi, request_count, tasks, lost>>

\* SIGINT or SIGTERM: the handler creates the handle_shutdown_signal task.
Signal ==
  /\ mode = "server"
  /\ server.main \notin {"none", "RuntimeError", "terminated"}
  /\ server.signal = "none"
  /\ server' = [server EXCEPT !.signal = "scheduled"]
  /\ UNCHANGED <<mode, wire, fed, buffer, raised, ret, reqno, transport,
                 timeout_handler, asgi, request_count, tasks, lost>>

handle_shutdown_signal ==
  /\ mode = "server"
  /\ server.signal = "scheduled"
  /\ server' = [server EXCEPT !.signal = "done", !.event = TRUE]
  /\ UNCHANGED <<mode, wire, fed, buffer, raised, ret, reqno, transport,
                 timeout_handler, asgi, request_count, tasks, lost>>

\* The lifespan task starts: handle_lifespan builds the scope and calls the
\* application.
handle_lifespan ==
  /\ mode = "server"
  /\ server.lifespan = "scheduled"
  /\ server' = [server EXCEPT !.lifespan = "app"]
  /\ UNCHANGED <<mode, wire, fed, buffer, raised, ret, reqno, transport,
                 timeout_handler, asgi, request_count, tasks, lost>>

\* The application awaits receive().
LifespanReceive ==
  /\ mode = "server"
  /\ server.lifespan = "app"
  /\ server' =
       IF ~server.startup
       THEN [server EXCEPT !.received = "lifespan.startup"]
       ELSE IF ~server.shutdown /\ server.event
            THEN [server EXCEPT !.received = "lifespan.shutdown"]
            ELSE sleep([server EXCEPT !.lifespan = "receive"], "lifespan")
  /\ UNCHANGED <<mode, wire, fed, buffer, raised, ret, reqno, transport,
                 timeout_handler, asgi, request_count, tasks, lost>>

\* The application awaits send(message).
LifespanSend ==
  /\ mode = "server"
  /\ server.lifespan = "app"
  /\ \E type \in LifespanMessages :
       LET s == [server EXCEPT !.sent = @ \cup {type}] IN
       server' =
         CASE type = "lifespan.startup.complete" -> [s EXCEPT !.startup = TRUE]
           [] type = "lifespan.startup.failed" ->
                sleep([s EXCEPT !.event = TRUE, !.lifespan = "send",
                                !.failed = @ \/ ~s.startup], "lifespan")
           [] OTHER -> [s EXCEPT !.shutdown = TRUE]
  /\ UNCHANGED <<mode, wire, fed, buffer, raised, ret, reqno, transport,
                 timeout_handler, asgi, request_count, tasks, lost>>

\* An exception leaves the application: handle_lifespan sets the event.
LifespanRaise ==
  /\ mode = "server"
  /\ server.lifespan = "app"
  /\ server' = [server EXCEPT !.event = TRUE, !.lifespan = "done",
                              !.failed = @ \/ ~server.startup]
  /\ UNCHANGED <<mode, wire, fed, buffer, raised, ret, reqno, transport,
                 timeout_handler, asgi, request_count, tasks, lost>>

\* The application returns.
LifespanReturn ==
  /\ mode = "server"
  /\ server.lifespan = "app"
  /\ server' = [server EXCEPT !.lifespan = "done"]
  /\ UNCHANGED <<mode, wire, fed, buffer, raised, ret, reqno, transport,
                 timeout_handler, asgi, request_count, tasks, lost>>

NextServer ==
  \/ ServerStart
  \/ ServerWake
  \/ ServerCreate
  \/ ServerLoop
  \/ ServerWaitClosed
  \/ ServerGather
  \/ handle_shutdown_signal
  \/ handle_lifespan
  \/ Signal
  \/ LifespanReceive
  \/ LifespanSend
  \/ LifespanRaise
  \/ LifespanReturn

SpecServer == InitServer /\ [][NextServer]_vars

\* The event loop runs every task that is ready and fires every timer that is
\* due; when a signal arrives and what the application does next are free.
FairSpecServer ==
  /\ SpecServer
  /\ WF_vars(ServerStart)
  /\ WF_vars(ServerWake)
  /\ WF_vars(ServerCreate)
  /\ WF_vars(ServerLoop)
  /\ WF_vars(ServerWaitClosed)
  /\ WF_vars(ServerGather)
  /\ WF_vars(handle_shutdown_signal)
  /\ WF_vars(handle_lifespan)

-----
(* parse_headers on request lines *)

\* header blocks as get_request_headers returns them: a request line of two,
\* three or four tokens, a Host header and the empty line; the method tokens
\* are the nine methods of parse_headers and two it does not list
RequestLines ==
  LET LineMethods == Methods \cup {<<"g","e","t">>, <<"F","E","T","C","H">>}
      LineProtocols ==
        {<<"H","T","T","P","/","1",".","0">>,
         <<"H","T","T","P","/","1">>,
         <<"H","T","T","P","/","1",".","1">>,
         <<"H","T","T","P","/","2",".","0">>,
         <<"H","T","T","P","/","1",".","2">>,
         <<"H","T","T","P","/">>,
         <<"H","T","T","P","1",".","1">>,
         <<"H","T","T","P","/","1",".","1","/">>,
         <<"F","O","O","/","1",".","1">>,
         <<"h","t","t","p","/","1",".","1">>,
         <<"/","1",".","1">>}
      block(line) == line \o CRLF \o H_HOST \o CRLF
  IN
  {block(m \o SP \o <<"/">> \o SP \o p) : m \in LineMethods, p \in LineProtocols}
  \cup {block(m \o SP \o p) : m \in LineMethods, p \in LineProtocols}
  \cup {block(m \o SP \o <<"/">> \o SP \o p \o SP \o <<"x">>) :
          m \in LineMethods, p \in LineProtocols}

InitLine ==
  /\ mode = "line"
  /\ server = Server
  /\ wire \in RequestLines
  /\ fed = 0
  /\ buffer = RequestBuffer
  /\ raised = "None"
  /\ ret = FALSE
  /\ reqno = 0
  /\ transport = Transport
  /\ timeout_handler = TimeoutHandler
  /\ asgi = ASGIResponseHandler
  /\ request_count = 0
  /\ tasks = <<>>
  /\ lost = FALSE

\* scope = parse_headers(headers): the exception raised and the scope
\* returned are kept in raised and asgi.scope.
ParseHeaders ==
  /\ mode = "line"
  /\ fed = 0
  /\ fed' = Len(wire)
  /\ \E r \in {parse_headers(wire)} :
       /\ raised' = r.raised
       /\ asgi' = [asgi EXCEPT !.scope = r.scope]
  /\ UNCHANGED <<mode, server, wire, buffer, ret, reqno, transport,
                 timeout_handler, request_count, tasks, lost>>

SpecLine == InitLine /\ [][ParseHeaders]_vars

-----
(* The TimeoutHandler alone, with the handles the event loop holds for it *)

MaxHandles == 4

TimeoutTypes == {"REQUEST", "KEEP_ALIVE", "ALL"}

\* TimeoutHandler.__init__ with the loop's timers: loop[i] is the i-th handle
\* call_later returned, [kind, state], state being "scheduled", "cancelled"
\* or "fired"; a field of the handler is 0 (None) or the index of its handle
TimeoutHandles ==
  [request_timeout_handle |-> 0, keepalive_timeout_handle |-> 0, loop |-> <<>>]

\* handle.cancel(), guarded by `if handle:`
cancel_handle(loop, h) ==
  IF h # 0 /\ loop[h].state = "scheduled"
  THEN [loop EXCEPT ![h].state = "cancelled"]
  ELSE loop

cancel_timeout_handles(t, type) ==
  LET request(l) ==
        IF type \in {"REQUEST", "ALL"}
        THEN cancel_handle(l, t.request_timeout_handle) ELSE l
      keepalive(l) ==
        IF type \in {"KEEP_ALIVE", "ALL"}
        THEN cancel_handle(l, t.keepalive_timeout_handle) ELSE l
  IN  [t EXCEPT !.loop = keepalive(request(@))]

\* mutant: the old handle is replaced without being cancelled
reset_timeout_handles_no_cancel(t, type) ==
  LET call_later(u, kind) ==
        [loop |-> Append(u.loop, [kind |-> kind, state |-> "scheduled"]),
         request_timeout_handle |->
           IF kind = "REQUEST" THEN Len(u.loop) + 1 ELSE u.request_timeout_handle,
         keepalive_timeout_handle |->
           IF kind = "KEEP_ALIVE" THEN Len(u.loop) + 1
           ELSE u.keepalive_timeout_handle]
      request(u) ==
        IF type \in {"REQUEST", "ALL"} THEN call_later(u, "REQUEST") ELSE u
      keepalive(u) ==
        IF type \in {"KEEP_ALIVE", "ALL"} THEN call_later(u, "KEEP_ALIVE") ELSE u
  IN  keepalive(request(t))

reset_timeout_handles(t, type) ==
  LET call_later(u, kind) ==
        [loop |-> Append(u.loop, [kind |-> kind, state |-> "scheduled"]),
         request_timeout_handle |->
           IF kind = "REQUEST" THEN Len(u.loop) + 1 ELSE u.request_timeout_handle,
         keepalive_timeout_handle |->
           IF kind = "KEEP_ALIVE" THEN Len(u.loop) + 1
           ELSE u.keepalive_timeout_handle]
      request(u) ==
        IF type \in {"REQUEST", "ALL"}
        THEN call_later(cancel_timeout_handles(u, "REQUEST"), "REQUEST") ELSE u
      keepalive(u) ==
        IF type \in {"KEEP_ALIVE", "ALL"}
        THEN call_later(cancel_timeout_handles(u, "KEEP_ALIVE"), "KEEP_ALIVE")
        ELSE u
  IN  keepalive(request(t))

InitTimer ==
  /\ mode = "timer"
  /\ server = Server
  /\ wire = <<>>
  /\ fed = 0
  /\ buffer = RequestBuffer
  /\ raised = "None"
  /\ ret = FALSE
  /\ reqno = 0
  /\ transport = Transport
  /\ timeout_handler = TimeoutHandles
  /\ asgi = ASGIResponseHandler
  /\ request_count = 0
  /\ tasks = <<>>
  /\ lost = FALSE

\* the protocol calls reset_timeout(type, timeout)
ResetTimeout ==
  /\ mode = "timer"
  /\ \E type \in TimeoutTypes :
       \E t \in {reset_timeout_handles(timeout_handler, type)} :
         /\ Len(t.loop) <= MaxHandles
         /\ timeout_handler' = t
  /\ UNCHANGED <<mode, server, wire, fed, buffer, raised, ret, reqno, transport,
                 asgi, request_count, tasks, lost>>

\* the protocol calls cancel_timeout_handle(type)
CancelTimeoutHandle ==
  /\ mode = "timer"
  /\ \E type \in TimeoutTypes :
       timeout_handler' = cancel_timeout_handles(timeout_handler, type)
  /\ UNCHANGED <<mode, server, wire, fed, buffer, raised, ret, reqno, transport,
                 asgi, request_count, tasks, lost>>

\* the event loop runs the callback of a handle that is due and was not
\* cancelled; fed records which handle it was
TimerFires ==
  /\ mode = "timer"
  /\ \E h \in DOMAIN timeout_handler.loop :
       /\ timeout_handler.loop[h].state = "scheduled"
       /\ timeout_handler' = [timeout_handler EXCEPT !.loop[h].state = "fired"]
       /\ fed' = h
  /\ UNCHANGED <<mode, server, wire, buffer, raised, ret, reqno, transport,
                 asgi, request_count, tasks, lost>>

NextTimer ==
  \/ ResetTimeout
  \/ CancelTimeoutHandle
  \/ TimerFires

SpecTimer == InitTimer /\ [][NextTimer]_vars

-----
(* One connection whose application calls receive in a loop until it gets   *)
(* more_body = false.  _receive awaits nothing, so a task that is in this   *)
(* loop does not return control to the event loop: while a task is          *)
(* "receiving", no callback and no other task runs.  A task that is         *)
(* "running" is suspended in an await of its own, before the loop.          *)

MaxLoopTasks == 3

\* some task is executing and has not suspended
LoopHeld == \E i \in DOMAIN tasks : tasks[i].pc = "receiving"

InitLoop ==
  /\ mode = "loop"
  /\ server = Server
  /\ wire = W_POST_CHUNKED1
  /\ fed = 0
  /\ buffer = RequestBuffer
  /\ raised = "None"
  /\ ret = FALSE
  /\ reqno = 1
  /\ transport = Transport
  /\ timeout_handler = TimeoutHandler
  /\ asgi = ASGIResponseHandler
  /\ request_count = 0
  /\ tasks = <<>>
  /\ lost = FALSE

\* the event loop calls data_received with the next bytes the peer has sent
LoopDataReceived ==
  /\ mode = "loop"
  /\ ~LoopHeld
  /\ ~lost
  /\ ~transport.closing
  /\ Len(tasks) < MaxLoopTasks
  /\ \E k \in {c \in CutOffsets(wire) : c > fed} :
       \E r \in {data_received(SubSeq(wire, fed + 1, k), reqno)} :
         /\ fed' = k
         /\ buffer' = r.buffer
         /\ raised' = r.raised
         /\ transport' = r.transport
         /\ timeout_handler' = r.timeout_handler
         /\ tasks' = r.tasks
         /\ request_count' = r.request_count
  /\ UNCHANGED <<mode, server, wire, ret, reqno, asgi, lost>>

\* the event loop runs a created task up to the first await of the application
LoopTaskStart ==
  /\ mode = "loop"
  /\ ~LoopHeld
  /\ \E i \in 1..Len(tasks) :
       /\ tasks[i].pc = "scheduled"
       /\ \A j \in 1..(i - 1) : tasks[j].pc # "scheduled"
       /\ tasks' = [tasks EXCEPT ![i].pc = "running"]
       /\ asgi' = [asgi EXCEPT !.scope = tasks[i].scope]
  /\ UNCHANGED <<mode, server, wire, fed, buffer, raised, ret, reqno, transport,
                 timeout_handler, request_count, lost>>

\* one receive call of the loop: the task that holds the event loop calls
\* again, or a suspended task is resumed and enters the loop; received keeps
\* the last message only, the loop is left with more_body = false, and ret
\* is the parity of the calls made, which tells a repeated call from none
LoopReceive ==
  /\ mode = "loop"
  /\ \E i \in 1..Len(tasks) :
       /\ tasks[i].pc = (IF LoopHeld THEN "receiving" ELSE "running")
       /\ \E r \in {receive} :
            IF r.raised = "None"
            THEN /\ tasks' = [tasks EXCEPT
                                ![i].received = <<r.msg>>,
                                ![i].pc = IF r.msg.more_body THEN "receiving"
                                          ELSE "received"]
                 /\ UNCHANGED <<transport, timeout_handler>>
            ELSE IF r.raised = "Hang"
            THEN /\ tasks' = [tasks EXCEPT ![i].pc = "hung"]
                 /\ UNCHANGED <<transport, timeout_handler>>
            ELSE Raise(i, [transport |-> transport,
                           timeout_handler |-> timeout_handler], r.raised)
  /\ ret' = ~ret
  /\ UNCHANGED <<mode, server, wire, fed, buffer, raised, reqno, asgi,
                 request_count, lost>>

\* the pending request timer fires
LoopRequestTimeout ==
  /\ mode = "loop"
  /\ ~LoopHeld
  /\ timeout_handler.request_timeout_handle = "pending"
  /\ timeout_handler' = [timeout_handler EXCEPT !.request_timeout_handle = "fired"]
  /\ transport' = send_timeout_response(transport)
  /\ UNCHANGED <<mode, server, wire, fed, buffer, raised, ret, reqno, asgi,
                 request_count, tasks, lost>>

NextLoop ==
  \/ LoopDataReceived
  \/ LoopTaskStart
  \/ LoopReceive
  \/ LoopRequestTimeout

SpecLoop == InitLoop /\ [][NextLoop]_vars

\* the steps of LoopDataReceived and of LoopReceive, told by what only they
\* change: data_received and receive return for every input, so each is
\* enabled exactly when its guard holds
LoopDelivers ==
  /\ mode = "loop"
  /\ ~LoopHeld
  /\ ~lost
  /\ ~transport.closing
  /\ Len(tasks) < MaxLoopTasks
  /\ fed' \in {c \in CutOffsets(wire) : c > fed}

LoopCalls ==
  /\ mode = "loop"
  /\ \E i \in 1..Len(tasks) :
       tasks[i].pc = (IF LoopHeld THEN "receiving" ELSE "running")
  /\ ret' = ~ret

\* the peer has sent the whole request, the event loop delivers what has
\* arrived and runs the tasks that are ready whenever it gets control, and a
\* task in the loop goes on calling receive; when a timer fires is free
FairSpecLoop ==
  /\ SpecLoop
  /\ WF_fed(LoopDelivers)
  /\ WF_vars(LoopTaskStart)
  /\ WF_ret(LoopCalls)

-----
(* Claims *)

\* C1: for every well-formed request and every way of cutting it into
\* consecutive non-empty pieces, feeding the pieces in order ends in the same
\* parser state, with the same get_request_headers() and get_request_body(),
\* as feeding the request in one feed_data call.
C1_SplitFeedEqualsWholeFeed ==
  (mode = "parser" /\ wire \in WellFormedWires /\ fed = Len(wire)) =>
    \A whole \in {feed_data(RequestBuffer, wire)} :
        /\ raised = whole.raised
        /\ ret = whole.ret
        /\ buffer.state = whole.buf.state
        /\ buffer.state \in {"COMPLETE", "CHUNKS_COMPLETE"}
        /\ get_request_headers(buffer) = get_request_headers(whole.buf)
        /\ get_request_body(buffer) = get_request_body(whole.buf)

\* a chunked request fed in several pieces, the last one starting inside the body
C1_Witness ==
  /\ mode = "parser"
  /\ wire = W_POST_CHUNKED
  /\ fed = Len(wire)
  /\ buffer.state = "CHUNKS_COMPLETE"
  /\ buffer.position > buffer.headers_end[1]

\* C2: in every reachable state of a connection at most one of the request
\* timer and the keep-alive timer is pending.
C2_AtMostOneTimerPending ==
  mode = "conn" =>
    ~ /\ timeout_handler.request_timeout_handle = "pending"
      /\ timeout_handler.keepalive_timeout_handle = "pending"

\* the scope carries the header name: value
HasHeader(scope, name, value) ==
  \E k \in DOMAIN scope.headers : scope.headers[k] = <<name, value>>

\* C3: the first receive call of the task spawned for a completely received
\* request with Content-Length 3 returns an http.request message whose body is
\* the 3 body bytes of the request, with more_body false.
C3_FirstReceiveReturnsBody ==
  mode = "conn" =>
    \A i \in DOMAIN tasks :
      (/\ HasHeader(tasks[i].scope, SubSeq(B_content_length, 1, 14), <<"3">>)
       /\ tasks[i].received # <<>>
       /\ tasks[i].received[1].type = "http.request")
      => /\ tasks[i].received[1].body = BODY_abc
         /\ ~tasks[i].received[1].more_body

\* C4: in every request cycle, a body message of a task that has not sent
\* http.response.start is never accepted, and the RuntimeError that rejects
\* it ends the cycle with the 500 response and the transport closed.
C4_BodyBeforeStartRejected ==
  [][mode = "conn" =>
       \A i \in DOMAIN tasks :
         (tasks[i].pc = "running" /\ tasks[i].sent = "none") =>
           /\ tasks'[i].sent \notin {"body_more", "body_final"}
           /\ tasks'[i].exc = "RuntimeError" =>
                /\ transport'.closing
                /\ transport'.written # <<>>
                /\ transport'.written[Len(transport'.written)].data = RESP_500]_vars

\* C5: when a task whose last accepted message was a body with more_body true
\* has another body message accepted, only the body bytes are written.
C5_HeadWrittenOnce ==
  [][mode = "conn" =>
       \A i \in DOMAIN tasks :
         (/\ tasks[i].pc = "running"
          /\ tasks[i].sent = "body_more"
          /\ tasks'[i].pc = "running"
          /\ \A j \in DOMAIN tasks : j # i => tasks'[j] = tasks[j]
          /\ wire' = wire /\ fed' = fed
          /\ timeout_handler.request_timeout_handle # "pending"
          /\ Len(transport'.written) = Len(transport.written) + 1)
         => transport'.written[Len(transport'.written)].data = BODY_hi]_vars

NoTimerPending ==
  /\ timeout_handler.request_timeout_handle # "pending"
  /\ timeout_handler.keepalive_timeout_handle # "pending"

\* C6: once the received headers parse to an unsupported HTTP version,
\* data_received has raised nothing, no timer is pending, the 505 response
\* naming the version has been written, the protocol has closed the transport
\* and no application task exists for the request.
C6_UnsupportedVersionGets505 ==
  (mode = "conn"
   /\ buffer.state \in {"RECEIVING_CHUNKS", "CHUNKS_COMPLETE", "COMPLETE"}) =>
    \A parsed_headers \in {parse_headers(get_request_headers(buffer).val)} :
      parsed_headers.raised = "UnsupportedProtocolError" =>
        /\ raised = "None"
        /\ NoTimerPending
        /\ \E k \in DOMAIN transport.written :
             /\ StartsWith(transport.written[k].data, RESP_505_HEAD)
             /\ Find(transport.written[k].data, parsed_headers.value[2])
                  >= Len(RESP_505_HEAD)
        /\ transport.close_calls >= 1
        /\ \A i \in DOMAIN tasks : tasks[i].req # reqno

\* what the protocol has done once an exception has left the application
Answered500 ==
  /\ NoTimerPending
  /\ \E k \in DOMAIN transport.written : transport.written[k].data = RESP_500
  /\ transport.closing
  /\ transport.close_calls >= 1

\* C7: any exception that ends an application task is answered with
\* cancelled timers, the 500 response and a closed transport, and the task
\* ends without the exception leaving it.
C7_AnyExceptionGets500 ==
  mode = "conn" =>
    \A i \in DOMAIN tasks :
      tasks[i].exc # "None" => (tasks[i].pc = "done" /\ Answered500)

\* C8: feed_data never raises; malformed input leaves the parser in ERROR with
\* an error tag, and feed_data returns true exactly in COMPLETE / CHUNKS_COMPLETE.
C8_FeedDataNeverRaises ==
  mode = "parser" =>
    /\ raised = "None"
    /\ (buffer.state = "ERROR" => buffer.error # "None")
    /\ (fed > 0 => (ret <=> buffer.state \in {"COMPLETE", "CHUNKS_COMPLETE"}))

\* C9: whenever further bytes can be processed (the transport is open), the
\* buffer is not in a completed state, and right after a completed request it
\* is a fresh RequestBuffer: RECEIVING_HEADERS with zero bytes.
C9_BufferFreshAfterRequest ==
  (mode = "conn" /\ ~transport.closing /\ ~lost) =>
    /\ buffer.state \notin {"COMPLETE", "CHUNKS_COMPLETE"}
    /\ (wire \in WellFormedWires /\ fed = Len(wire)) =>
         /\ buffer = RequestBuffer
         /\ buffer.state = "RECEIVING_HEADERS"
         /\ buffer.data = <<>>

\* a chunked request has been completed on an open connection
C9_Witness ==
  /\ mode = "conn"
  /\ wire = W_POST_CHUNKED1
  /\ fed = Len(wire)
  /\ request_count = 1
  /\ Len(tasks) = 1
  /\ ~transport.closing
  /\ ~lost
  /\ buffer = RequestBuffer

\* the decision the keep-alive rule prescribes for the request in asgi.scope
KeepAliveExpected ==
  LET hs == asgi.scope.headers
      idx == {k \in DOMAIN hs : Lower(hs[k][1]) = B_connection}
      first == CHOOSE k \in idx : \A m \in idx : k <= m
  IN  IF request_count >= MAX_KEEP_ALIVE_REQUESTS THEN FALSE
      ELSE IF idx # {} THEN Lower(hs[first][2]) # B_close
      ELSE asgi.scope.http_version = V_1_1

\* C10: the keep-alive decision is false if request_count >=
\* MAX_KEEP_ALIVE_REQUESTS; otherwise, with a Connection header, it is false
\* exactly when the first such header's value is 'close' case-insensitively;
\* otherwise it is true exactly when http_version is '1.1'.
C10_KeepAliveDecision ==
  mode = "keepalive_decided" => ret = KeepAliveExpected

\* the limit is reached by a request that would otherwise be kept alive
C10_Witness ==
  /\ mode = "keepalive_decided"
  /\ request_count = MAX_KEEP_ALIVE_REQUESTS
  /\ wire = W_GET
  /\ ~ret

\* C11: on a sequential keep-alive connection request_count equals the number
\* of completed requests, the transport is not closed while fewer than
\* MAX_KEEP_ALIVE_REQUESTS responses are finished, and it has been closed
\* (once) as soon as response number MAX_KEEP_ALIVE_REQUESTS is finished.
C11_ClosedAtKeepAliveLimit ==
  mode = "seq" =>
    /\ request_count = reqno
    /\ reqno <= MAX_KEEP_ALIVE_REQUESTS
    /\ Len(transport.written) < MAX_KEEP_ALIVE_REQUESTS =>
         (~transport.closing /\ transport.close_calls = 0)
    /\ Len(transport.written) = MAX_KEEP_ALIVE_REQUESTS =>
         (transport.closing /\ transport.close_calls = 1)

\* the response to request number MAX_KEEP_ALIVE_REQUESTS has been written
C11_Witness ==
  /\ mode = "seq"
  /\ request_count = MAX_KEEP_ALIVE_REQUESTS
  /\ Len(transport.written) = MAX_KEEP_ALIVE_REQUESTS
  /\ transport.closing

\* C12: when a running task whose request carried Connection: close has its
\* final http.response.body accepted after http.response.start, that step
\* writes the response bytes to the still open transport, calls close once and
\* leaves no timer pending; and while that task lives on, no step in which no
\* exception leaves the application calls close again or leaves a timer
\* pending (connection_lost included).
C12_CloseResponseClosesOnce ==
  [][mode = "conn" =>
       \A i \in DOMAIN tasks :
         (/\ tasks[i].pc = "running"
          /\ \E k \in DOMAIN tasks[i].scope.headers :
               /\ tasks[i].scope.headers[k][1] = B_connection
               /\ Lower(tasks[i].scope.headers[k][2]) = B_close)
         => /\ (tasks[i].sent \in {"start", "body_more"}
                /\ tasks'[i].sent = "body_final")
               => /\ Len(transport'.written) = Len(transport.written) + 1
                  /\ ~transport'.written[Len(transport'.written)].closing
                  /\ transport'.closing
                  /\ transport'.close_calls = transport.close_calls + 1
                  /\ NoTimerPending'
            /\ (tasks[i].sent = "body_final"
                /\ \A j \in DOMAIN tasks : tasks'[j].exc = tasks[j].exc)
               => /\ transport'.close_calls = transport.close_calls
                  /\ NoTimerPending']_vars

\* C13: when the first final body of a response is accepted and keep-alive is
\* accepted, the transport stays open and the keep-alive timer is pending; when
\* the pending keep-alive timer fires, close is called and nothing is written;
\* when bytes arrive while it is pending, it is cancelled, and a cancelled
\* keep-alive timer does not fire.
C13_KeepAliveTimer ==
  [][mode = "conn" =>
       /\ \A i \in DOMAIN tasks :
            (/\ tasks[i].pc = "running"
             /\ tasks[i].sent \in {"start", "body_more"}
             /\ tasks'[i].sent = "body_final"
             /\ should_keep_alive(request_count, asgi.scope))
            => /\ ~transport'.closing
               /\ transport'.close_calls = transport.close_calls
               /\ timeout_handler'.keepalive_timeout_handle = "pending"
       /\ (/\ timeout_handler.keepalive_timeout_handle = "pending"
           /\ timeout_handler'.keepalive_timeout_handle = "fired")
          => /\ transport'.closing
             /\ transport'.close_calls = transport.close_calls + 1
             /\ transport'.written = transport.written
       /\ (/\ timeout_handler.keepalive_timeout_handle = "pending"
           /\ (fed' # fed \/ reqno' # reqno))
          => timeout_handler'.keepalive_timeout_handle = "cancelled"
       /\ timeout_handler.keepalive_timeout_handle = "cancelled"
          => timeout_handler'.keepalive_timeout_handle # "fired"]_vars

\* bytes of a second request arrived after a keep-alive response and cancelled
\* the keep-alive timer
C13_Witness ==
  /\ mode = "conn"
  /\ reqno = 2
  /\ Len(transport.written) = 1
  /\ ~transport.closing
  /\ timeout_handler.keepalive_timeout_handle = "cancelled"
  /\ \E i \in DOMAIN tasks : tasks[i].pc = "running" /\ tasks[i].sent = "body_final"

\* C14: a data_received call that sees the request complete or writes an error
\* response leaves the request timer not pending, and one that returns with
\* the request still incomplete leaves it pending; the request timer is pending
\* only while the buffer holds an incomplete request; when it fires, the 408
\* response is written and close is called, and at most one 408 response is
\* ever written.
C14_RequestTimer ==
  [][mode = "conn" =>
       /\ (fed' # fed \/ reqno' # reqno) =>
            IF \/ request_count' # request_count
               \/ Len(transport'.written) > Len(transport.written)
            THEN timeout_handler'.request_timeout_handle # "pending"
            ELSE raised' = "None" =>
                   timeout_handler'.request_timeout_handle = "pending"
       /\ timeout_handler'.request_timeout_handle = "pending" =>
            /\ buffer'.data # <<>>
            /\ buffer'.state \in {"RECEIVING_HEADERS", "RECEIVING_BODY",
                                  "RECEIVING_CHUNKS"}
       /\ (/\ timeout_handler.request_timeout_handle = "pending"
           /\ timeout_handler'.request_timeout_handle = "fired")
          => /\ transport'.written =
                  Append(transport.written,
                         [data |-> RESP_408, closing |-> transport.closing])
             /\ transport'.closing
             /\ transport'.close_calls = transport.close_calls + 1
       /\ Cardinality({k \in DOMAIN transport'.written :
                         transport'.written[k].data = RESP_408}) <= 1]_vars

\* the request timer fired on an open connection that held an incomplete
\* request
C14_Witness ==
  /\ mode = "conn"
  /\ timeout_handler.request_timeout_handle = "fired"
  /\ fed < Len(wire)
  /\ transport.written = <<[data |-> RESP_408, closing |-> FALSE]>>
  /\ transport.closing

\* C15 as stated: a data_received call that leaves the parser in ERROR, or
\* whose header validation raises BadRequestError, writes the 400 response to
\* the open transport, calls close, leaves no timer pending, and no
\* application task exists for that request.
C15_ErrorsGet400NoTask ==
  [][(mode = "conn" /\ (fed' # fed \/ reqno' # reqno)) =>
       \A parsed_headers \in
            {IF buffer'.state \in {"RECEIVING_CHUNKS", "CHUNKS_COMPLETE", "COMPLETE"}
             THEN parse_headers(get_request_headers(buffer').val).raised
             ELSE "None"} :
         (buffer'.state = "ERROR" \/ parsed_headers = "BadRequestError") =>
           /\ transport'.written =
                Append(transport.written, [data |-> RESP_400, closing |-> FALSE])
           /\ transport'.closing
           /\ transport'.close_calls = transport.close_calls + 1
           /\ NoTimerPending'
           /\ \A i \in DOMAIN tasks' : tasks'[i].req # reqno']_vars

\* C15 amended: a data_received call that leaves the parser in ERROR, or whose
\* header validation raises BadRequestError, writes the 400 response to the
\* open transport, calls close, leaves no timer pending, and spawns no
\* application task.
C15_ErrorsGet400NoTaskInCall ==
  [][(mode = "conn" /\ (fed' # fed \/ reqno' # reqno)) =>
       \A parsed_headers \in
            {IF buffer'.state \in {"RECEIVING_CHUNKS", "CHUNKS_COMPLETE", "COMPLETE"}
             THEN parse_headers(get_request_headers(buffer').val).raised
             ELSE "None"} :
         (buffer'.state = "ERROR" \/ parsed_headers = "BadRequestError") =>
           /\ transport'.written =
                Append(transport.written, [data |-> RESP_400, closing |-> FALSE])
           /\ transport'.closing
           /\ transport'.close_calls = transport.close_calls + 1
           /\ NoTimerPending'
           /\ tasks' = tasks]_vars

\* a chunked request whose headers spawned a task was answered with 400 when a
\* later call brought the malformed chunk
C15_Witness ==
  /\ mode = "conn"
  /\ buffer.state = "ERROR"
  /\ transport.written = <<[data |-> RESP_400, closing |-> FALSE]>>
  /\ transport.closing
  /\ NoTimerPending
  /\ \E i \in DOMAIN tasks : tasks[i].req = reqno

\* C16: no data_received call of a connection lets an exception escape to the
\* event loop.
C16_DataReceivedNeverRaises ==
  mode = "conn" => raised = "None"

\* C17: in every step taken while the transport is closing, a message the
\* application receives is http.disconnect, no message the application sends
\* is accepted or written (the only bytes written are the timeout response and
\* the 500 response), and a task that ends with OSError leaves the transport
\* and the timers as they were.
C17_ClosingTransport ==
  [][(mode = "conn" /\ transport.closing) =>
       /\ \A i \in DOMAIN tasks :
            /\ Len(tasks'[i].received) > Len(tasks[i].received) =>
                 tasks'[i].received[Len(tasks'[i].received)].type = "http.disconnect"
            /\ tasks'[i].pc = "running" => tasks'[i].sent = tasks[i].sent
            /\ (tasks[i].pc = "running" /\ tasks'[i].exc = "OSError") =>
                 /\ transport' = transport
                 /\ timeout_handler' = timeout_handler
       /\ Len(transport'.written) > Len(transport.written) =>
            transport'.written[Len(transport'.written)].data \in {RESP_408, RESP_500}]_vars

\* on a closing transport one task has received http.disconnect and another
\* has ended with OSError, and no 500 response was written
C17_Witness ==
  /\ mode = "conn"
  /\ transport.closing
  /\ \E i \in DOMAIN tasks :
       /\ tasks[i].pc = "running"
       /\ tasks[i].received # <<>>
       /\ tasks[i].received[1].type = "http.disconnect"
  /\ \E j \in DOMAIN tasks : tasks[j].pc = "done" /\ tasks[j].exc = "OSError"
  /\ \A k \in DOMAIN transport.written : transport.written[k].data # RESP_500

\* C18: once a chunked request built from a list of frames has reached
\* CHUNKS_COMPLETE, get_request_body returns the concatenation of the frames'
\* payloads in order, whatever the payloads, the chunk extensions and the
\* split of the bytes across feeds.
C18_ChunkedBodyIsPayloads ==
  (mode = "body" /\ buffer.state = "CHUNKS_COMPLETE") =>
    \A fs \in ChunkLists :
      \A c \in {Chunked(fs)} :
        c.wire = wire => get_request_body(buffer) = [raised |-> "None", val |-> c.body]

\* a request of two frames, one with an extension and a payload that reads
\* like the zero chunk, the other with a CRLF payload, is complete
C18_Witness ==
  /\ mode = "body"
  /\ buffer.state = "CHUNKS_COMPLETE"
  /\ fed = Len(wire)
  /\ wire = Chunked(<<[payload |-> CH_LAST, ext |-> <<";", "x">>],
                      [payload |-> CRLF, ext |-> <<>>]>>).wire
  /\ get_request_body(buffer).val = CH_LAST \o CRLF

\* C19: once a request that declares Content-Length L >= 0 and carries a body
\* of L bytes, possibly followed by more bytes, is COMPLETE, the parser holds
\* L as content_length and get_request_body returns the body: the first L
\* bytes after the header block, without the bytes buffered beyond them.
C19_BodyIsContentLengthBytes ==
  (mode = "body" /\ buffer.state = "COMPLETE") =>
    \A s \in SizedBodies :
      Sized(s) = wire =>
        /\ buffer.content_length = <<Len(s.body)>>
        /\ get_request_body(buffer) = [raised |-> "None", val |-> s.body]
        /\ s.body = PySlice(wire, Find(wire, CRLFCRLF) + 4,
                            Find(wire, CRLFCRLF) + 4 + Len(s.body))

\* a complete request with a 3-byte body and two more bytes buffered after it
C19_Witness ==
  /\ mode = "body"
  /\ buffer.state = "COMPLETE"
  /\ wire = Sized([body |-> BODY_abc, extra |-> BODY_hi])
  /\ buffer.data = wire
  /\ get_request_body(buffer).val = BODY_abc

\* C20: in the feed that completes the header block of a non-chunked request
\* whose request line names a method, nothing is raised and the parser goes to
\* ERROR with tag BAD_REQUEST if the method is PUT, POST or PATCH and there is
\* no Content-Length header, to COMPLETE if Content-Length is absent (and not
\* required) or 0, and otherwise to RECEIVING_BODY, or to COMPLETE if at least
\* Content-Length body bytes are buffered; a later feed leaves RECEIVING_BODY
\* for COMPLETE exactly when that many body bytes are buffered.
C20_HeaderCompletion ==
  [][mode = "parser" =>
       /\ (Find(buffer.data, CRLFCRLF) = -1 /\ Find(buffer'.data, CRLFCRLF) # -1) =>
            \A headers \in {PySlice(buffer'.data, 0, Find(buffer'.data, CRLFCRLF))} :
              \A length \in {first_line_with(Split(headers, CRLF), B_content_length)} :
                \A method \in {get_http_method(headers)} :
                  (~get_is_chunked(headers) /\ ~method.raised) =>
                    /\ raised' = "None"
                    /\ IF length = <<>> /\ method.val \in {B_PUT, B_POST, B_PATCH}
                       THEN buffer'.state = "ERROR" /\ buffer'.error = "BAD_REQUEST"
                       ELSE IF length = <<>> \/ buffer'.content_length = <<0>>
                       THEN buffer'.state = "COMPLETE"
                       ELSE /\ buffer'.content_length # <<>>
                            /\ buffer'.state =
                                 IF Len(buffer'.data) - buffer'.headers_end[1]
                                      >= buffer'.content_length[1]
                                 THEN "COMPLETE" ELSE "RECEIVING_BODY"
       /\ buffer.state = "RECEIVING_BODY" =>
            buffer'.state =
              IF Len(buffer'.data) - buffer.headers_end[1] >= buffer.content_length[1]
              THEN "COMPLETE" ELSE "RECEIVING_BODY"]_vars

\* C21: after every feed that leaves a chunked request built from a list of
\* frames incomplete (the bytes fed so far are the header block and a proper
\* prefix of the frames and the zero chunk), feed_data has raised nothing and
\* the parser is in RECEIVING_CHUNKS with no error tag.
C21_IncompleteChunksKeepReceiving ==
  (mode = "body" /\ StartsWith(wire, HEAD_CHUNKED) /\ 0 < fed /\ fed < Len(wire)) =>
    /\ raised = "None"
    /\ ~ret
    /\ buffer.state = "RECEIVING_CHUNKS"
    /\ buffer.error = "None"

\* a feed that started inside a payload has ended inside the terminator of
\* the zero chunk
C21_Witness ==
  /\ mode = "body"
  /\ wire = Chunked(<<[payload |-> B_connection, ext |-> <<";", "x">>]>>).wire
  /\ fed = Len(wire) - 1
  /\ buffer.position = Len(HEAD_CHUNKED) + 8
  /\ buffer.state = "RECEIVING_CHUNKS"

\* C22 as stated: whatever the split of the bytes across feeds, a chunked
\* request is in ERROR with tag BAD_REQUEST once the buffered bytes hold a
\* complete size line that is not hex, a payload and two following bytes that
\* are not CRLF, or a byte after the terminator of the zero chunk.
C22_MalformedChunksRejected ==
  mode = "parser" =>
    /\ (/\ wire \in {HEAD_CHUNKED \o pre \o bad :
                       pre \in {<<>>, CH_ab}, bad \in {CH_BADHEX, CH_NOCRLF}}
        /\ fed = Len(wire))
       => (buffer.state = "ERROR" /\ buffer.error = "BAD_REQUEST")
    /\ (wire = W_CHUNK_TRAIL /\ fed > Len(HEAD_CHUNKED \o CH_LAST))
       => (buffer.state = "ERROR" /\ buffer.error = "BAD_REQUEST")

\* C22 amended: a chunked request is in ERROR with tag BAD_REQUEST, whatever
\* the split, as soon as the buffered bytes hold a complete size line that is
\* not hex or a payload and two following bytes that are not CRLF, and not
\* before; a feed that brings bytes after the terminator of the zero chunk
\* ends in ERROR with tag BAD_REQUEST unless an earlier feed ended with the
\* terminator, in which case the parser is and stays in CHUNKS_COMPLETE.
C22_MalformedChunksRejectedInFeed ==
  [][mode = "parser" =>
       /\ (/\ wire \in {HEAD_CHUNKED \o pre \o bad :
                          pre \in {<<>>, CH_ab}, bad \in {CH_BADHEX, CH_NOCRLF}}
           /\ fed' >= Len(HEAD_CHUNKED))
          => IF fed' = Len(wire)
             THEN buffer'.state = "ERROR" /\ buffer'.error = "BAD_REQUEST"
             ELSE buffer'.state = "RECEIVING_CHUNKS" /\ buffer'.error = "None"
       /\ wire = W_CHUNK_TRAIL
          => /\ fed' = Len(HEAD_CHUNKED \o CH_LAST) => buffer'.state = "CHUNKS_COMPLETE"
             /\ fed' > Len(HEAD_CHUNKED \o CH_LAST) =>
                  IF buffer.state = "CHUNKS_COMPLETE"
                  THEN buffer'.state = "CHUNKS_COMPLETE" /\ buffer'.error = "None"
                  ELSE buffer'.state = "ERROR" /\ buffer'.error = "BAD_REQUEST"]_vars

\* a feed that started inside the zero chunk brought bytes after its
\* terminator and was rejected
C22_Witness ==
  /\ mode = "parser"
  /\ wire = W_CHUNK_TRAIL
  /\ fed = Len(wire)
  /\ buffer.position > Len(HEAD_CHUNKED)
  /\ buffer.position < Len(HEAD_CHUNKED \o CH_LAST)
  /\ buffer.state = "ERROR"

\* C23: in every state a RequestBuffer reaches, get_request_headers returns
\* in RECEIVING_BODY, RECEIVING_CHUNKS, COMPLETE and CHUNKS_COMPLETE and raises
\* RuntimeError in the other states, and get_request_body returns in COMPLETE
\* and CHUNKS_COMPLETE and raises RuntimeError in the other states (both read
\* the buffer and assign nothing).
C23_GettersReadyStates ==
  mode = "parser" =>
    /\ get_request_headers(buffer).raised =
         IF buffer.state \in {"RECEIVING_BODY", "RECEIVING_CHUNKS", "COMPLETE",
                              "CHUNKS_COMPLETE"}
         THEN "None" ELSE "RuntimeError"
    /\ get_request_body(buffer).raised =
         IF buffer.state \in {"COMPLETE", "CHUNKS_COMPLETE"}
         THEN "None" ELSE "RuntimeError"

\* C24: the connection_lost step cancels both timers, so that none is pending
\* after it, writes nothing, and calls close exactly when is_closing() returned
\* false, which it never does on a transport the protocol has closed.
C24_ConnectionLost ==
  [][(mode = "conn" /\ ~lost /\ lost') =>
       /\ timeout_handler' =
            [request_timeout_handle |-> cancel(timeout_handler.request_timeout_handle),
             keepalive_timeout_handle |-> cancel(timeout_handler.keepalive_timeout_handle)]
       /\ NoTimerPending'
       /\ transport'.written = transport.written
       /\ transport'.close_calls = transport.close_calls + (IF ret' THEN 0 ELSE 1)
       /\ transport.closing => ret'
       /\ transport.close_calls > 0 => ret']_vars

\* the connection was lost with the keep-alive timer pending on an open
\* transport: the timer is cancelled and close was called once
C24_Witness ==
  /\ mode = "conn"
  /\ lost
  /\ ~ret
  /\ transport.close_calls = 1
  /\ Len(transport.written) = 1
  /\ timeout_handler.keepalive_timeout_handle = "cancelled"

\* C25: a listener exists only if the application has sent
\* lifespan.startup.complete; and once the application has sent
\* lifespan.startup.failed, or an exception has left the lifespan call, before
\* startup completed, there is no listener and start() either has failed with
\* RuntimeError or is in its polling sleep with the startup flag still unset
\* and the event set, so that its next turn fails; this for every order in
\* which the application's steps, the signal and the ends of the sleeps occur.
C25_ListenerOnlyAfterStartup ==
  mode = "server" =>
    /\ server.servers > 0 => "lifespan.startup.complete" \in server.sent
    /\ server.failed =>
         /\ server.servers = 0
         /\ \/ server.main = "RuntimeError"
            \/ /\ server.main = "start"
               /\ ~server.startup
               /\ server.event
               /\ \E i \in DOMAIN server.sleeping : server.sleeping[i] = "main"

\* start() has failed after the application sent lifespan.startup.failed in
\* answer to lifespan.startup.
C25_Witness ==
  /\ mode = "server"
  /\ server.failed
  /\ server.sent = {"lifespan.startup.failed"}
  /\ server.received = "lifespan.startup"
  /\ server.main = "RuntimeError"
  /\ server.servers = 0

C27_RequestLineAccepted ==
  (mode = "line" /\ fed > 0) =>
    LET tokens == Split(PySlice(wire, 0, Find(wire, CRLF)), SP) IN
    /\ raised = "None" =>
         /\ Len(tokens) = 3
         /\ tokens[1] \in Methods
         /\ \E v \in Versions : tokens[3] = <<"H","T","T","P","/">> \o v
    /\ raised # "None" => asgi.scope = NoScope

\* C28: a feed_data call on a RequestBuffer whose state is COMPLETE,
\* CHUNKS_COMPLETE or ERROR, whatever bytes it is given, raises nothing and
\* leaves the state and the error tag as they were.
C28_TerminalStatesAbsorbing ==
  [][(/\ mode = "parser"
      /\ buffer.state \in {"COMPLETE", "CHUNKS_COMPLETE", "ERROR"}
      /\ fed' > fed) =>
       /\ buffer'.state = buffer.state
       /\ buffer'.error = buffer.error
       /\ raised' = "None"]_vars

\* a request with a three-byte body was completed, and one more byte was fed
C28_Witness ==
  /\ mode = "parser"
  /\ wire = W_POST_CL3 \o B_PUT
  /\ fed = Len(W_POST_CL3) + 1
  /\ buffer.position = Len(W_POST_CL3)
  /\ buffer.state = "COMPLETE"

\* C29: across one feed_data call the parser state either stays the same or
\* moves along one of the edges RECEIVING_HEADERS to RECEIVING_BODY,
\* RECEIVING_CHUNKS, COMPLETE or ERROR; RECEIVING_BODY to COMPLETE or ERROR;
\* RECEIVING_CHUNKS to CHUNKS_COMPLETE or ERROR.
C29_StateEdges ==
  [][(mode = "parser" /\ fed' > fed /\ buffer'.state # buffer.state) =>
       <<buffer.state, buffer'.state>> \in
         ({"RECEIVING_HEADERS"} \X
            {"RECEIVING_BODY", "RECEIVING_CHUNKS", "COMPLETE", "ERROR"})
         \cup ({"RECEIVING_BODY"} \X {"COMPLETE", "ERROR"})
         \cup ({"RECEIVING_CHUNKS"} \X {"CHUNKS_COMPLETE", "ERROR"})]_vars

\* C29, amended: the same, with the edge RECEIVING_HEADERS to CHUNKS_COMPLETE
\* added.
C29_StateEdgesInOneFeed ==
  [][(mode = "parser" /\ fed' > fed /\ buffer'.state # buffer.state) =>
       <<buffer.state, buffer'.state>> \in
         ({"RECEIVING_HEADERS"} \X
            {"RECEIVING_BODY", "RECEIVING_CHUNKS", "COMPLETE", "CHUNKS_COMPLETE",
             "ERROR"})
         \cup ({"RECEIVING_BODY"} \X {"COMPLETE", "ERROR"})
         \cup ({"RECEIVING_CHUNKS"} \X {"CHUNKS_COMPLETE", "ERROR"})]_vars

\* a whole chunked request was fed in one call
C29_Witness ==
  /\ mode = "parser"
  /\ wire = W_POST_CHUNKED
  /\ fed = Len(wire)
  /\ buffer.position = 0
  /\ buffer.state = "CHUNKS_COMPLETE"

\* C30: after any sequence of feed_data calls, failed calls included, the
\* header-end offset is set if and only if the state is not RECEIVING_HEADERS,
\* state ERROR implies that the error tag is set, and content_length is unset
\* whenever is_chunked is true.
C30_BufferInvariants ==
  mode = "parser" =>
    /\ buffer.headers_end # <<>> <=> buffer.state # "RECEIVING_HEADERS"
    /\ buffer.state = "ERROR" => buffer.error # "None"
    /\ buffer.is_chunked => buffer.content_length = <<>>

\* C31: request_count never decreases and changes only in a data_received
\* call that completes a request; that call adds exactly one, has scheduled
\* the application task of that request, and leaves a fresh buffer installed
\* for the next request; and every data_received call that brings the last
\* byte of a well-formed request without raising is such a call.
C31_RequestCount ==
  [][mode = "conn" =>
       /\ request_count' >= request_count
       /\ request_count' # request_count =>
            /\ request_count' = request_count + 1
            /\ fed' # fed \/ reqno' # reqno
            /\ Len(tasks') = Len(tasks) + 1
            /\ tasks'[Len(tasks')].pc = "scheduled"
            /\ tasks'[Len(tasks')].req = reqno'
            /\ \A i \in DOMAIN tasks : tasks'[i] = tasks[i]
            /\ buffer' = RequestBuffer
       /\ (/\ fed' # fed \/ reqno' # reqno
           /\ fed' = Len(wire')
           /\ wire' \in WellFormedWires \cup {W_POST_CHUNKED1}
           /\ raised' = "None") =>
            request_count' = request_count + 1]_vars

\* the second request of the connection has just been completed: its task is
\* scheduled behind the task of the first and the buffer is fresh
C31_Witness ==
  /\ mode = "conn"
  /\ request_count = 2
  /\ reqno = 2
  /\ wire = W_POST_CL3
  /\ fed = Len(wire)
  /\ Len(tasks) = 2
  /\ tasks[2].pc = "scheduled"
  /\ tasks[2].req = 2
  /\ buffer = RequestBuffer

\* C32: for each timer kind at most one handle is scheduled at any time, and
\* it is the handle the TimeoutHandler currently holds for that kind, so that
\* a handle that was cancelled or replaced never fires: the handle whose
\* callback runs is the current handle of its kind.
C32_OnePendingPerKind ==
  /\ [](mode = "timer" =>
         \A h \in DOMAIN timeout_handler.loop :
           timeout_handler.loop[h].state = "scheduled" =>
             h = (IF timeout_handler.loop[h].kind = "REQUEST"
                  THEN timeout_handler.request_timeout_handle
                  ELSE timeout_handler.keepalive_timeout_handle))
  /\ [][(mode = "timer" /\ TimerFires) =>
          /\ timeout_handler.loop[fed'].state = "scheduled"
          /\ fed' \in {timeout_handler.request_timeout_handle,
                       timeout_handler.keepalive_timeout_handle}]_vars

\* the request timer was armed, re-armed and then fired: the first handle is
\* cancelled and the second is the one that ran
C32_Witness ==
  /\ mode = "timer"
  /\ Len(timeout_handler.loop) = 2
  /\ timeout_handler.loop[1] = [kind |-> "REQUEST", state |-> "cancelled"]
  /\ timeout_handler.loop[2] = [kind |-> "REQUEST", state |-> "fired"]
  /\ timeout_handler.request_timeout_handle = 2
  /\ fed = 2

\* C33: no two application tasks of a connection are for the same request,
\* however many data_received calls delivered the bytes of the request.
C33_OneTaskPerRequest ==
  mode = "conn" =>
    \A i, j \in DOMAIN tasks : tasks[i].req = tasks[j].req => i = j

\* C34: once the protocol has called close on the transport, no step writes
\* further bytes to it or calls close on it again.
C34_NothingAfterClose ==
  [][(mode = "conn" /\ transport.close_calls > 0) =>
       /\ transport'.written = transport.written
       /\ transport'.close_calls = transport.close_calls]_vars

\* C35: for the chunked request with the single payload 'ab', however its
\* bytes were cut into data_received calls, no receive call of its application
\* task fails, and the bodies its receive calls have returned, concatenated,
\* are the beginning of 'ab', and all of it once a message with more_body
\* false was returned.
C35_ReceiveDeliversChunks ==
  (mode = "conn" /\ wire = W_POST_CHUNKED1) =>
    \A i \in DOMAIN tasks :
      tasks[i].req = reqno =>
        LET RECURSIVE bodies(_)
            bodies(msgs) ==
              IF msgs = <<>> THEN <<>> ELSE Head(msgs).body \o bodies(Tail(msgs))
            got == bodies(tasks[i].received)
            n == Len(tasks[i].received)
        IN  /\ tasks[i].exc \notin {"ValueError", "BadRequestError"}
            /\ tasks[i].pc # "hung"
            /\ (n > 0 /\ \A k \in 1..n : tasks[i].received[k].type = "http.request") =>
                 /\ got = SubSeq(<<"a","b">>, 1, Len(got))
                 /\ ~tasks[i].received[n].more_body => got = <<"a","b">>

\* C36: whenever the transport is open, bytes have been received on the
\* connection and no application task is scheduled or running, the request
\* timer or the keep-alive timer is pending.
C36_IdleConnectionHasTimer ==
  (/\ mode = "conn"
   /\ ~transport.closing
   /\ ~lost
   /\ reqno > 0
   /\ \A i \in DOMAIN tasks : tasks[i].pc = "done") =>
    ~NoTimerPending

\* C37: when the final http.response.body of a running task is accepted, the
\* transport is closed in that step exactly if should_keep_alive, applied to
\* the scope of that task's own request, refuses keep-alive.
C37_KeepAliveUsesOwnScope ==
  [][mode = "conn" =>
       \A i \in DOMAIN tasks :
         (/\ tasks[i].pc = "running"
          /\ tasks[i].sent \in {"start", "body_more"}
          /\ tasks'[i].sent = "body_final")
         => (transport'.closing <=>
               ~should_keep_alive(request_count, tasks[i].scope))]_vars

\* C38: on a connection the parser's error tag is never LENGTH_REQUIRED and
\* the 411 response is never written; and the data_received call that brings
\* the last byte of a POST request with neither Content-Length nor chunked
\* transfer coding spawns no task, writes the 400 response and calls close.
C38_No411 ==
  /\ [](mode = "conn" =>
         /\ buffer.error # "LENGTH_REQUIRED"
         /\ \A k \in DOMAIN transport.written : transport.written[k].data # RESP_411)
  /\ [][(/\ mode = "conn"
         /\ fed' # fed \/ reqno' # reqno
         /\ wire' = W_POST_NOCL
         /\ fed' = Len(wire')) =>
          /\ buffer'.error = "BAD_REQUEST"
          /\ tasks' = tasks
          /\ transport'.written =
               Append(transport.written, [data |-> RESP_400, closing |-> FALSE])
          /\ transport'.close_calls = transport.close_calls + 1]_vars

\* the second request of a connection was a POST without Content-Length: the
\* 400 response is written and the transport closed
C38_Witness ==
  /\ mode = "conn"
  /\ reqno = 2
  /\ wire = W_POST_NOCL
  /\ fed = Len(wire)
  /\ buffer.error = "BAD_REQUEST"
  /\ Len(transport.written) = 1
  /\ transport.written[1].data = RESP_400
  /\ transport.closing

\* C39: after connection_lost has run no timer of the connection is pending,
\* whatever the application tasks that are still running do afterwards.
C39_NoTimerAfterLost ==
  (mode = "conn" /\ lost) => NoTimerPending

\* connection_lost closed the transport while the task of the only request
\* was running; the task then raised and was answered with the 500 response
C39_Witness ==
  /\ mode = "conn"
  /\ lost
  /\ Len(tasks) = 1
  /\ tasks[1].exc = "RuntimeError"
  /\ Len(transport.written) = 1
  /\ transport.written[1] = [data |-> RESP_500, closing |-> TRUE]
  /\ transport.close_calls = 2
  /\ NoTimerPending

\* C40: a task that is in its receive loop with more_body = true eventually
\* leaves it: it gets a message with more_body = false, or its receive raises.
C40_ReceiveLoopEnds ==
  (mode = "loop" /\ LoopHeld) ~> ~LoopHeld

====
